---- MODULE Spec2Model ----
(***************************************************************************)
(* Trade admission, sizing, execution and trailing-stop engine of          *)
(* agentic-trader.  Prices are integers counted in broker points, lots are *)
(* integers counted in hundredths of a lot, money is an integer, time is   *)
(* counted in whole minutes.                                               *)
(***************************************************************************)
EXTENDS Integers, Sequences, FiniteSets, TLC

VARIABLES
    \* ---- broker state shared by the components
    pos,            \* ticket -> open position record (broker owned)
    nowMin,         \* wall clock, minutes
    \* ---- app/monitor/trailing.py
    trailEnv,       \* the TRAIL_* settings of the process environment
    COOLDOWN,       \* _COOLDOWN: symbol -> minute of the last trailing pass
    tpc,            \* position of trail_positions: idle / symbol / position
    tcfg,           \* effective settings of the running call
    tSyms,          \* symbols still to visit in the running call
    tQueue,         \* position snapshots still to visit for the head symbol
    tDistance,      \* trail distance computed for the head symbol
    actions,        \* report: stop-modify requests submitted in this call
    inspected,      \* report: skipped / failed inspections of this call
    \* ---- risk guards
    account,        \* what the broker's account_info reports
    genv,           \* the guard settings of the process environment
    LAST_REJECT_MIN,\* _LAST_REJECT_MIN: symbol -> minute of the last rejection
    last_trade_at,  \* _last_trade_at: symbol -> minute of the last noted trade
    guard,          \* the decision of the latest guard evaluation
    \* ---- position sizing
    senv,           \* sizing settings, account balance and symbol metadata
    sized,          \* the latest sizing call and the quantity it returned
    \* ---- order execution: app/brokers/mt5_client.py, app/exec/executor.py
    oenv,           \* the MT5_* settings and what symbol_info answers
    opc,            \* position of the running order call
    oreq,           \* the trade request and the locals of the running call
    oattempt,       \* attempt number inside the current retry loop
    olog,           \* requests sent to the broker by the running call
    last_result,    \* place_order's last_result / the executor's first result
    order_ticket,   \* place_order's order_ticket (0 for None)
    oresult,        \* what the call returned
    heard,          \* the latest result mt5.order_send gave the running call
    \* ---- request handlers of app/main.py running side by side
    threads,        \* handler -> where its worker thread stands
    \* ---- the trade loops: run_auto_guarded.py, auto_runner.py
    runner,         \* the running script, its position and what it remembers
    \* ---- SL/TP prices: app/exec/executor_mt5.py, app/brokers/mt5_client.py
    sltp            \* the instrument's tick size and the latest SL/TP computation

trailVars == <<trailEnv, COOLDOWN, tpc, tcfg, tSyms, tQueue, tDistance, actions, inspected>>
guardVars == <<account, genv, LAST_REJECT_MIN, last_trade_at, guard>>
sizeVars == <<senv, sized>>
orderVars == <<oenv, opc, oreq, oattempt, olog, last_result, order_ticket, oresult, heard>>
auxVars == <<threads, runner, sltp>>
vars == <<pos, nowMin, trailEnv, COOLDOWN, tpc, tcfg, tSyms, tQueue, tDistance,
          actions, inspected, account, genv, LAST_REJECT_MIN, last_trade_at, guard,
          senv, sized, oenv, opc, oreq, oattempt, olog, last_result, order_ticket,
          oresult, heard, threads, runner, sltp>>

Abs(x) == IF x < 0 THEN -x ELSE x
Max(a, b) == IF a >= b THEN a ELSE b
Min(a, b) == IF a <= b THEN a ELSE b

\* ------------------------------------------------------------------------
\* Instruments
\* ------------------------------------------------------------------------
Symbols == {"EURUSD", "US30"}

\* quote digits reported by the broker for each modelled instrument
digits(symbol) == IF symbol = "EURUSD" THEN 5 ELSE 2

\* app/util/pricing.py pip_size, in points
pip_size(symbol) == IF digits(symbol) \in {3, 5} THEN 10 ELSE 1

\* app/util/pricing.py price_delta_from_pips, in points
price_delta_from_pips(symbol, pips) == pips * pip_size(symbol)

\* one broker point, the unit of every price of the model
point == 1

\* app/monitor/trailing.py _pip_size, in points: 0.0001 on a 5-digit quote,
\* point * 10 otherwise
trail_pip_size(symbol) == IF digits(symbol) >= 5 THEN 10 ELSE point * 10

\* ------------------------------------------------------------------------
\* Broker positions
\* ------------------------------------------------------------------------
Tickets == {1, 2, 3}

IsLong(side) == side \in {"BUY", "LONG"}

\* open positions of one symbol, in ticket order, as get_positions lists them
RECURSIVE TicketSeq(_, _)
TicketSeq(symbol, from) ==
    IF from > 3 THEN <<>>
    ELSE IF from \in Tickets /\ pos[from].open /\ pos[from].symbol = symbol
         THEN <<from>> \o TicketSeq(symbol, from + 1)
         ELSE TicketSeq(symbol, from + 1)

\* the dict get_positions returns for a ticket: a snapshot of the broker's
\* record at the price cur the broker quotes at that moment
Snapshot(t, cur) ==
    [ticket |-> t, symbol |-> pos[t].symbol, side |-> pos[t].side,
     price_open |-> pos[t].entry, price_current |-> cur, sl |-> pos[t].sl]

RECURSIVE SnapshotSeq(_, _)
SnapshotSeq(ts, cur) ==
    IF ts = <<>> THEN <<>>
    ELSE <<Snapshot(Head(ts), cur)>> \o SnapshotSeq(Tail(ts), cur)

get_positions(symbol, cur) == SnapshotSeq(TicketSeq(symbol, 1), cur)

\* ------------------------------------------------------------------------
\* app/monitor/trailing.py
\* ------------------------------------------------------------------------
\* latest minute the clock of the model reaches
MaxMin == 2

\* values the callers and the environment give the effective settings
TrailPips == {2, 6}
AtrValues == {0, 15}          \* ATR times multiplier, in points; 0 = unavailable
StartPips == {0, 3}
LockPips == {0, 5}
StepPips == {0, 1}
FreqMin == {1}

TrailConfigs ==
    { c \in [enable : BOOLEAN, mode : {"ATR", "PIPS"}, atr : AtrValues,
             trail_pips : TrailPips, start_pips : StartPips, lock_pips : LockPips,
             step_pips : StepPips, only_profit : BOOLEAN, req_bias : BOOLEAN,
             freq_min : FreqMin] :
        \* settings the code never reads are kept at one value
        /\ c.mode = "ATR" => c.trail_pips = 2
        /\ c.mode = "PIPS" => c.atr = 0
        /\ ~c.only_profit => c.start_pips = 0 /\ c.lock_pips = 0
        \* a disabled controller is modelled under one setting only
        /\ ~c.enable => c.mode = "PIPS" /\ c.trail_pips = 2 /\ ~c.only_profit
                         /\ c.step_pips = 0 /\ ~c.req_bias }

NoConfig == [force |-> FALSE, mode |-> "PIPS", atr |-> 0, trail_pips |-> 2,
             start_pips |-> 0, lock_pips |-> 0, step_pips |-> 0,
             only_profit |-> TRUE, req_bias |-> FALSE, freq_min |-> 1,
             now_min |-> 0, symbols |-> <<>>]

\* what decide_signal answers the bias re-check: the dict it returns, with the
\* value of its top-level "side" key ("" when it has none) and the "side" of
\* the dict under its "preview" key ("" when it has none), or an exception
Answer(side, preview_side) == [raised |-> FALSE, side |-> side, preview_side |-> preview_side]
AnswerRaised == [raised |-> TRUE, side |-> "", preview_side |-> ""]

\* agentic-trader-drop/app/agents/auto_decider.py decide_signal: the side is
\* a top-level key of the dict
Signals == {Answer("LONG", ""), Answer("SHORT", ""), Answer("", ""), AnswerRaised}

\* app/agents/auto_decider.py decide_signal: every decision is returned as
\* {"accepted": True, "preview": {"side": ...}}, and exceptions are caught
AppSignals == {Answer("", "LONG"), Answer("", "SHORT"), Answer("", "")}

\* the direction the decider decided on
decided_side(sig) == IF sig.side # "" THEN sig.side ELSE sig.preview_side

\* new_side of the bias re-check, (sig.get("side") or "").upper() (line 287);
\* "raise" stands for the exception of line 293
live_side(sig) == IF sig.raised THEN "raise" ELSE sig.side

\* what the broker answers a stop-modify request
ModifyReplies == {"DONE", "PLACED", "REJECTED", "None"}

\* _pip_distance(symbol, p1, p2) < pips, without the division
pip_distance_below(symbol, p1, p2, pips) ==
    Abs(p1 - p2) < pips * trail_pip_size(symbol)

in_profit(side, cur, entry) == IF IsLong(side) THEN cur > entry ELSE cur < entry

\* desired SL price of a position (lines 298-303 and 314-317)
target_sl(cfg, symbol, side, cur, entry, distance) ==
    IF IsLong(side)
    THEN IF cfg.only_profit
         THEN Max(cur - distance, entry + price_delta_from_pips(symbol, cfg.lock_pips))
         ELSE cur - distance
    ELSE IF cfg.only_profit
         THEN Min(cur + distance, entry - price_delta_from_pips(symbol, cfg.lock_pips))
         ELSE cur + distance

\* a variant of the test that lets an equal stop through
no_improvement_strict(side, target, current_sl) ==
    IF IsLong(side)
    THEN current_sl # 0 /\ target < current_sl
    ELSE current_sl # 0 /\ target > current_sl

\* the "only tighten (never widen)" test (lines 306 and 319)
no_improvement(side, target, current_sl) ==
    IF IsLong(side)
    THEN current_sl # 0 /\ target <= current_sl
    ELSE current_sl # 0 /\ target >= current_sl

\* a variant of the step test that also holds back a move of exactly one step
below_step_inclusive(cfg, symbol, target, current_sl) ==
    current_sl # 0 /\ Abs(target - current_sl) <= cfg.step_pips * trail_pip_size(symbol)

\* the minimum step test (lines 309 and 322)
below_step(cfg, symbol, target, current_sl) ==
    current_sl # 0 /\ pip_distance_below(symbol, target, current_sl, cfg.step_pips)

\* the bias alignment test (lines 287-290)
aligned(side, new_side) ==
    \/ IsLong(side) /\ new_side = "LONG"
    \/ ~IsLong(side) /\ new_side = "SHORT"

\* the gate that decides whether a position is skipped, and why; "" = trail it
skip_reason(cfg, p, distance, sig) ==
    LET symbol == p.symbol
        cur == p.price_current
        entry == p.price_open
        tgt == target_sl(cfg, symbol, p.side, cur, entry, distance)
    IN  IF cfg.only_profit /\ ~in_profit(p.side, cur, entry) THEN "not_in_profit"
        ELSE IF cfg.only_profit /\ in_profit(p.side, cur, entry)
                /\ pip_distance_below(symbol, cur, entry, cfg.start_pips)
        THEN "profit<start"
        ELSE IF cfg.req_bias /\ sig = "raise" THEN "bias_error"
        ELSE IF cfg.req_bias /\ ~aligned(p.side, sig) THEN "bias_not_aligned"
        ELSE IF no_improvement(p.side, tgt, p.sl) THEN "no_improvement"
        ELSE IF below_step(cfg, symbol, tgt, p.sl) THEN "<step"
        ELSE ""

\* _modify_sl: the result dict's status for a broker reply
modify_status(found, reply) ==
    IF ~found THEN "error"
    ELSE IF reply = "None" THEN "error"
    ELSE IF reply \in {"DONE", "PLACED"} THEN "ok" ELSE "error"

\* the positions the loop still visits once a stop-modify has answered
\* (lines 326-336: the result is appended and the loop goes on)
after_modify_abort(queue, status) == IF status = "error" THEN <<>> ELSE Tail(queue)
after_modify(queue, status) == Tail(queue)

\* trail_positions up to the loop over the symbols (lines 191-216)
TrailBegin(symbols, force) ==
    /\ tpc = "idle"
    /\ UNCHANGED <<actions, inspected, trailEnv>>
    /\ IF ~trailEnv.enable /\ ~force
       THEN /\ tpc' = "idle"
            /\ UNCHANGED <<tcfg, tSyms>>
       ELSE LET cfg == trailEnv IN
            /\ tpc' = "symbol"
            /\ tcfg' = [force |-> force, mode |-> cfg.mode, atr |-> cfg.atr,
                        trail_pips |-> cfg.trail_pips, start_pips |-> cfg.start_pips,
                        lock_pips |-> cfg.lock_pips, step_pips |-> cfg.step_pips,
                        only_profit |-> cfg.only_profit, req_bias |-> cfg.req_bias,
                        freq_min |-> IF force THEN 0 ELSE cfg.freq_min,
                        now_min |-> nowMin, symbols |-> symbols]
            /\ tSyms' = symbols
    /\ UNCHANGED <<COOLDOWN, tQueue, tDistance, pos, nowMin>>
    /\ UNCHANGED <<guardVars, sizeVars, orderVars, auxVars>>

\* a cadence test that applies the configured cadence to forced calls too
cadence_skip_forced_too(last_run) ==
    tcfg.now_min - last_run < trailEnv.freq_min

\* the cadence test of lines 219-222
cadence_skip(last_run) ==
    ~tcfg.force /\ tcfg.now_min - last_run < tcfg.freq_min

\* one iteration of the loop over the symbols up to its inner loop
\* (lines 218-256), or the return of the report (lines 340-356)
TrailSymbol(tick_ok, cur) ==
    /\ tpc = "symbol"
    /\ IF tSyms = <<>>
       THEN \* the report goes to the caller and the call's locals are dropped
            /\ tpc' = "idle"
            /\ tcfg' = NoConfig
            /\ tDistance' = 0
            /\ actions' = <<>>
            /\ inspected' = <<>>
            /\ UNCHANGED <<COOLDOWN, tSyms, tQueue>>
       ELSE LET symbol == Head(tSyms)
                last_run == COOLDOWN[symbol]
                positions == get_positions(symbol, cur)
                next(skip, mark) ==
                    /\ UNCHANGED actions
                    /\ inspected' = Append(inspected, [symbol |-> symbol, ticket |-> 0, skip |-> skip,
                                                     live_agrees |-> FALSE])
                    /\ COOLDOWN' = IF mark THEN [COOLDOWN EXCEPT ![symbol] = tcfg.now_min]
                                   ELSE COOLDOWN
                    /\ tSyms' = Tail(tSyms)
                    /\ tpc' = "symbol"
                    /\ UNCHANGED <<tQueue, tDistance, tcfg>>
            IN  IF cadence_skip(last_run)
                THEN next("cooldown", FALSE)
                ELSE IF positions = <<>> THEN next("positions:0", TRUE)
                ELSE IF ~tick_ok THEN next("no_tick", TRUE)
                ELSE IF tcfg.mode = "ATR" /\ tcfg.atr <= 0 THEN next("atr_unavailable", TRUE)
                ELSE /\ tDistance' = IF tcfg.mode = "ATR" THEN tcfg.atr
                                     ELSE price_delta_from_pips(symbol, tcfg.trail_pips)
                     /\ tQueue' = positions
                     /\ tpc' = "position"
                     /\ UNCHANGED <<COOLDOWN, tSyms, inspected, tcfg>>
                     /\ UNCHANGED actions
    /\ UNCHANGED <<pos, nowMin, trailEnv>>
    /\ UNCHANGED <<guardVars, sizeVars, orderVars, auxVars>>

\* one iteration of the loop over the positions (lines 257-336), or its end
\* (line 338)
TrailPosition(sig, reply) ==
    /\ tpc = "position"
    /\ IF tQueue = <<>>
       THEN /\ COOLDOWN' = [COOLDOWN EXCEPT ![Head(tSyms)] = tcfg.now_min]
            /\ tSyms' = Tail(tSyms)
            /\ tpc' = "symbol"
            /\ UNCHANGED <<tQueue, actions, inspected, pos>>
       ELSE LET p == Head(tQueue)
                why == skip_reason(tcfg, p, tDistance, live_side(sig))
                tgt == target_sl(tcfg, p.symbol, p.side, p.price_current,
                                 p.price_open, tDistance)
                found == pos[p.ticket].open
                status == modify_status(found, reply)
            IN  /\ tQueue' = IF why # "" THEN Tail(tQueue) ELSE after_modify(tQueue, status)
                /\ IF why # ""
                   THEN /\ inspected' = Append(inspected,
                               [symbol |-> p.symbol, ticket |-> p.ticket, skip |-> why,
                                live_agrees |-> /\ why = "bias_not_aligned"
                                                /\ aligned(p.side, decided_side(sig))])
                        /\ UNCHANGED <<actions, pos>>
                   ELSE /\ actions' = Append(actions,
                               [symbol |-> p.symbol, ticket |-> p.ticket, side |-> p.side,
                                from |-> p.sl, to |-> tgt, cur |-> p.price_current,
                                result |-> status])
                        /\ pos' = IF status = "ok"
                                  THEN [pos EXCEPT ![p.ticket].sl = tgt]
                                  ELSE pos
                        /\ UNCHANGED inspected
                /\ UNCHANGED <<COOLDOWN, tSyms, tpc>>
    /\ UNCHANGED <<tcfg, tDistance, nowMin, trailEnv>>
    /\ UNCHANGED <<guardVars, sizeVars, orderVars, auxVars>>

\* ---- environment of the trailing controller
PriceLevels == {80, 100, 120, 150}

\* the decision of a guard evaluation lives for one cycle: a later event of
\* the environment finds none
NoDecision == [variant |-> "none"]

ClockTick ==
    /\ nowMin < MaxMin
    /\ nowMin' = nowMin + 1
    /\ guard' = NoDecision
    /\ UNCHANGED <<pos, trailVars, sizeVars, orderVars, auxVars, account, genv, LAST_REJECT_MIN, last_trade_at>>

BrokerClose(t) ==
    /\ pos[t].open
    /\ pos' = [pos EXCEPT ![t].open = FALSE]
    /\ guard' = NoDecision
    /\ UNCHANGED <<nowMin, trailVars, sizeVars, orderVars, auxVars, account, genv, LAST_REJECT_MIN, last_trade_at>>

TrailIdle ==
    /\ COOLDOWN = [s \in Symbols |-> 0]
    /\ tpc = "idle"
    /\ tcfg = NoConfig
    /\ tSyms = <<>>
    /\ tQueue = <<>>
    /\ tDistance = 0
    /\ actions = <<>>
    /\ inspected = <<>>

Position(symbol, side, entry, sl, open) ==
    [symbol |-> symbol, side |-> side, entry |-> entry, sl |-> sl, open |-> open,
     profit |-> 0, time |-> 0]

\* no guard has run and no account has been read
\* an optional number: <<>> is None, <<x>> is the number x
None == <<>>
Some(x) == <<x>>

NoSizing == [fn |-> "none"]

SizeIdle ==
    /\ senv = [mode |-> "fixed"]
    /\ sized = NoSizing

NoRequest == [symbol |-> ""]
NoResult == [ok |-> FALSE, status |-> "", ticket |-> 0, retcode |-> 0, comment |-> "",
             warning |-> "", error |-> "", result |-> [kind |-> "none"]]

\* the endpoints of app/main.py that reach mt5.order_send
Handlers == {"orders_market", "agents_decide", "monitor_trail"}

\* no request is being handled
ThreadsIdle == threads = [h \in Handlers |-> [pc |-> "idle", sends |-> 0]]

\* no SL/TP computation has run
NoStops == [fn |-> "none", tick_size |-> 1]
StopsIdle == sltp = NoStops

\* what the loop logged of the instrument it processed last
NoEvent == [symbol |-> "", outcome |-> "none", raised |-> FALSE, admitted |-> FALSE,
            at |-> 0, prev_fill |-> 0, wrote |-> FALSE]

\* no trade loop is running
RunnerIdle ==
    runner = [script |-> "none", pc |-> "idle", cycle |-> 0, i |-> 0, cooldown_min |-> 0,
              last_trade_ts |-> [s \in Symbols |-> 0],
              filled_at |-> [s \in Symbols |-> 0], last |-> NoEvent]

OrderIdle ==
    /\ oenv = [mode |-> "none"]
    /\ opc = "idle"
    /\ oreq = NoRequest
    /\ oattempt = 0
    /\ olog = <<>>
    /\ last_result = [kind |-> "none"]
    /\ order_ticket = 0
    /\ oresult = NoResult
    /\ heard = [kind |-> "none"]

GuardIdle ==
    /\ account = [ok |-> TRUE, equity |-> 0, balance |-> 0, profit |-> 0]
    /\ genv = [module |-> "none"]
    /\ LAST_REJECT_MIN = [s \in Symbols |-> 0]
    /\ last_trade_at = [s \in Symbols |-> 0]
    /\ guard = NoDecision

\* one open position, of either side, with or without a stop, under any of the
\* environment's settings
TrailInitOne ==
    /\ trailEnv \in TrailConfigs
    /\ \E side \in {"BUY", "SELL"}, sl \in {0, 100} :
          pos = [t \in Tickets |->
                   IF t = 1 THEN Position("EURUSD", side, 100, sl, TRUE)
                   ELSE Position(IF t = 2 THEN "EURUSD" ELSE "US30", "BUY", 100, 0, FALSE)]
    /\ nowMin = 1
    /\ TrailIdle
    /\ GuardIdle
    /\ SizeIdle
    /\ OrderIdle
    /\ ThreadsIdle
    /\ RunnerIdle
    /\ StopsIdle

\* three open positions with a stop at the entry price, over both
\* instruments, under one enabled setting, in the last minute of the clock
TrailInitMany ==
    /\ trailEnv \in {c \in TrailConfigs : c.enable /\ c.mode = "PIPS" /\ c.trail_pips = 2
                                          /\ ~c.only_profit /\ c.step_pips = 0 /\ ~c.req_bias}
    /\ pos = [t \in Tickets |->
                Position(IF t = 3 THEN "US30" ELSE "EURUSD", "BUY", 100, 100, TRUE)]
    /\ nowMin = MaxMin
    /\ TrailIdle
    /\ GuardIdle
    /\ SizeIdle
    /\ OrderIdle
    /\ ThreadsIdle
    /\ RunnerIdle
    /\ StopsIdle

\* a long position of EURUSD (one pip is 10 points) with a stop at 50, trailed
\* at 8 pips with a minimum step of 0 or 2 pips
TrailInitTight ==
    /\ trailEnv \in {[enable |-> TRUE, mode |-> "PIPS", atr |-> 0, trail_pips |-> 8,
                       start_pips |-> 0, lock_pips |-> 0, step_pips |-> st,
                       only_profit |-> FALSE, req_bias |-> FALSE, freq_min |-> 1] :
                          st \in {0, 2}}
    /\ pos = [t \in Tickets |->
                Position(IF t = 3 THEN "US30" ELSE "EURUSD", "BUY", 40, 50, t = 1)]
    /\ nowMin = MaxMin
    /\ TrailIdle
    /\ GuardIdle
    /\ SizeIdle
    /\ OrderIdle
    /\ ThreadsIdle
    /\ RunnerIdle
    /\ StopsIdle

TrailInit == TrailInitOne \/ TrailInitMany \/ TrailInitTight

SymbolLists == {<<"EURUSD">>, <<"EURUSD", "US30">>}

TrailNext ==
    \/ \E symbols \in SymbolLists, force \in BOOLEAN : TrailBegin(symbols, force)
    \/ \E tick_ok \in BOOLEAN, cur \in PriceLevels : TrailSymbol(tick_ok, cur)
    \/ \E sig \in Signals, reply \in ModifyReplies : TrailPosition(sig, reply)
    \/ ClockTick
    \/ \E t \in Tickets : BrokerClose(t)

TrailSpec == TrailInit /\ [][TrailNext]_vars

\* C1: every stop-modify request the trailing controller submits for a
\* position that already has a stop is strictly more favourable than that
\* stop: strictly higher for a long, strictly lower for a short.
C1_NeverLoosens ==
    \A i \in 1..Len(actions) :
        actions[i].from # 0 =>
            IF IsLong(actions[i].side)
            THEN actions[i].to > actions[i].from
            ELSE actions[i].to < actions[i].from

\* C1 witness: a pass has tightened the existing stop of a short position and
\* the broker has applied it
C1_Witness ==
    \E i \in 1..Len(actions) :
        /\ actions[i].from # 0
        /\ ~IsLong(actions[i].side)
        /\ actions[i].result = "ok"
        /\ pos[actions[i].ticket].sl = actions[i].to

\* ---- the report of a pass
Failed == \E i \in 1..Len(actions) : actions[i].result = "error"

Recorded(symbol, ticket) ==
    \/ \E i \in 1..Len(actions) :
          actions[i].symbol = symbol /\ actions[i].ticket = ticket
    \/ \E i \in 1..Len(inspected) :
          inspected[i].symbol = symbol /\ inspected[i].ticket = ticket

Waiting(symbol) == \E i \in 1..Len(tSyms) : tSyms[i] = symbol
Queued(ticket) == \E i \in 1..Len(tQueue) : tQueue[i].ticket = ticket

\* C12: a failed stop-modify is in the report and stops nothing: while the
\* pass runs, every instrument of the input list is either still to come, or
\* reported as skipped as a whole, or has each of its open positions in the
\* report or still in the loop; at the return of the report nothing is still
\* to come, so every position of every instrument has been evaluated.
C12_FailureDoesNotAbort ==
    (tpc # "idle" /\ Failed) =>
        \A k \in 1..Len(tcfg.symbols) :
            LET s == tcfg.symbols[k]
                running == tpc = "position" /\ s = Head(tSyms)
            IN  \/ Waiting(s) /\ ~running
                \/ Recorded(s, 0)
                \/ \A t \in Tickets :
                      (pos[t].symbol = s /\ pos[t].open) =>
                          Recorded(s, t) \/ (running /\ Queued(t))

\* C12 witness: the report is about to be returned; the modify of the first
\* position failed, and the second position of the same instrument and the
\* position of the next instrument were modified after it
C12_Witness ==
    /\ tpc = "symbol" /\ tSyms = <<>>
    /\ tcfg.symbols = <<"EURUSD", "US30">>
    /\ Len(actions) = 3
    /\ actions[1].ticket = 1 /\ actions[1].result = "error"
    /\ actions[2].ticket = 2 /\ actions[2].result = "ok"
    /\ actions[3].ticket = 3 /\ actions[3].result = "ok"

\* a long position whose stop is 10 pips and whose candidate stop is 8 pips
\* below the current price
StopTenCandidateEight(symbol, side, cur, sl, target) ==
    /\ IsLong(side)
    /\ sl = cur - 10 * trail_pip_size(symbol)
    /\ target = cur - 8 * trail_pip_size(symbol)

SymbolStep == tpc = "symbol" /\ tSyms # <<>> /\ (tSyms' # tSyms \/ tpc' # tpc)

\* the instrument was last evaluated fewer than the configured cadence ago
Early(symbol) == tcfg.now_min - COOLDOWN[symbol] < trailEnv.freq_min

\* C24: a non-forced call skips an instrument evaluated fewer than the
\* configured cadence minutes ago, with skip "cooldown", and never reaches the
\* loop over its positions, so that no stop-modify is submitted for them; a
\* forced call never skips an instrument for cadence.
C24_CadenceGate ==
    [][ /\ (SymbolStep /\ ~tcfg.force /\ Early(Head(tSyms)))
           => /\ tpc' = "symbol" /\ tSyms' = Tail(tSyms)
              /\ inspected' = Append(inspected, [symbol |-> Head(tSyms), ticket |-> 0,
                                                  skip |-> "cooldown",
                                                  live_agrees |-> FALSE])
              /\ actions' = actions /\ pos' = pos /\ COOLDOWN' = COOLDOWN
        /\ (SymbolStep /\ tcfg.force)
           => (inspected' = inspected \/ inspected'[Len(inspected')].skip # "cooldown")
        /\ (tpc = "position" /\ ~tcfg.force) => ~Early(Head(tSyms)) ]_vars

\* C24 witness: a non-forced pass has just skipped EURUSD for cadence, one of
\* its positions being open with the price far above the stop
C24_Witness ==
    /\ tpc = "symbol" /\ ~tcfg.force
    /\ inspected # <<>>
    /\ inspected[Len(inspected)].symbol = "EURUSD"
    /\ inspected[Len(inspected)].skip = "cooldown"
    /\ COOLDOWN["EURUSD"] = tcfg.now_min
    /\ \E t \in Tickets : pos[t].open /\ pos[t].symbol = "EURUSD"

\* C28: every stop price the trailing controller submits lies on the
\* protective side of the position's current price: strictly below it for a
\* long, strictly above it for a short, whatever the trail, start-profit and
\* profit-lock distances.
C28_StopOnProtectiveSide ==
    \A i \in 1..Len(actions) :
        IF IsLong(actions[i].side) THEN actions[i].to < actions[i].cur
        ELSE actions[i].to > actions[i].cur

\* ---- the bias re-check against the decider that trailing.py imports
\* one open position of either side, trailed by pips with the bias re-check on
BiasInit ==
    /\ trailEnv \in {c \in TrailConfigs : c.enable /\ c.req_bias /\ c.mode = "PIPS"
                                          /\ c.trail_pips = 2 /\ c.step_pips = 0}
    /\ \E side \in {"BUY", "SELL"}, sl \in {0, 100} :
          pos = [t \in Tickets |->
                   IF t = 1 THEN Position("EURUSD", side, 100, sl, TRUE)
                   ELSE Position(IF t = 2 THEN "EURUSD" ELSE "US30", "BUY", 100, 0, FALSE)]
    /\ nowMin = 1
    /\ TrailIdle
    /\ GuardIdle
    /\ SizeIdle
    /\ OrderIdle
    /\ ThreadsIdle
    /\ RunnerIdle
    /\ StopsIdle

BiasNext ==
    \/ \E symbols \in SymbolLists, force \in BOOLEAN : TrailBegin(symbols, force)
    \/ \E tick_ok \in BOOLEAN, cur \in PriceLevels : TrailSymbol(tick_ok, cur)
    \/ \E sig \in AppSignals, reply \in ModifyReplies : TrailPosition(sig, reply)
    \/ ClockTick
    \/ \E t \in Tickets : BrokerClose(t)

BiasSpec == BiasInit /\ [][BiasNext]_vars

\* C30: with the bias re-check enabled a position is skipped as
\* "bias_not_aligned" exactly when the live decision of decide_signal does not
\* have the position's direction: a long position while the decision is LONG,
\* or a short while it is SHORT, is never skipped for bias.
C30_BiasSkipOnlyWhenOpposed ==
    \A i \in 1..Len(inspected) :
        inspected[i].skip = "bias_not_aligned" => ~inspected[i].live_agrees


\* ------------------------------------------------------------------------
\* Risk guards: app/risk/guards.py (check_pretrade_guards), the drop-in
\* agentic-trader-drop/app/risk/guards.py (risk_guard) and guards.py
\* (risk_guard)
\* ------------------------------------------------------------------------
RECURSIVE SumProfit(_)
SumProfit(ts) ==
    IF ts = {} THEN 0
    ELSE LET t == CHOOSE x \in ts : TRUE IN pos[t].profit + SumProfit(ts \ {t})

\* mt5.positions_get(symbol=symbol) / positions_get(); "ALL" stands for None
positions(symbol) ==
    {t \in Tickets : pos[t].open /\ (symbol = "ALL" \/ pos[t].symbol = symbol)}

\* app/risk/guards.py _account_equity
account_equity ==
    IF ~account.ok THEN 0
    ELSE IF account.equity > 0 THEN account.equity ELSE account.balance

\* app/risk/guards.py _daily_pnl
daily_pnl == (IF account.ok THEN account.profit ELSE 0) + SumProfit(positions("ALL"))

\* app/risk/guards.py _floating_symbol_pnl
floating_symbol_pnl(symbol) == SumProfit(positions(symbol))

\* app/risk/guards.py _cooldown_remaining; 0 in last_trade_at stands for no entry
cooldown_remaining(symbol, cooldown_min) ==
    IF cooldown_min <= 0 THEN 0
    ELSE IF last_trade_at[symbol] = 0 THEN 0
    ELSE LET remain == cooldown_min - (nowMin - last_trade_at[symbol])
         IN  IF remain > 0 THEN remain ELSE 0

\* app/risk/guards.py _exposure_side_count
exposure_side_count(symbol, side) ==
    Cardinality({t \in positions(symbol) : (pos[t].side = "BUY") = (side = "LONG")})

\* app/risk/guards.py _same_side_block
same_side_block(symbol, side) ==
    /\ genv.block_same
    /\ \E t \in positions(symbol) : (pos[t].side = "BUY") = (side = "LONG")

When(cond, reason) == IF cond THEN <<reason>> ELSE <<>>

\* the daily loss test of check_pretrade_guards (line 208)
daily_loss_hit(limit, pnl) == limit > 0 /\ pnl <= -Abs(limit)

\* the equity floor test of check_pretrade_guards (line 201)
equity_floor_breached(floor, eq) == floor > 0 /\ eq <= floor

\* the reasons check_pretrade_guards collects, in its order (lines 166-216)
pretrade_reasons(symbol, side, market_open) ==
    When(genv.market_check /\ ~market_open, "market_closed_or_stale")
    \o When(cooldown_remaining(symbol, genv.cooldown_min) > 0, "cooldown_active")
    \o When(genv.cap_all > 0 /\ Cardinality(positions("ALL")) >= genv.cap_all,
            "max_open_reached")
    \o When(genv.cap_sym > 0 /\ Cardinality(positions(symbol)) >= genv.cap_sym,
            "per_symbol_cap_reached")
    \o When(genv.cap_side > 0 /\ exposure_side_count(symbol, side) >= genv.cap_side,
            "per_side_cap_reached")
    \o When(same_side_block(symbol, side), "same_side_blocked")
    \o When(equity_floor_breached(genv.floor, account_equity), "equity_floor_breached")
    \o When(daily_loss_hit(genv.daily_limit, daily_pnl), "daily_loss_limit_hit")
    \o When(genv.min_symbol_pnl < 0 /\ floating_symbol_pnl(symbol) <= genv.min_symbol_pnl,
            "symbol_floating_under_min")

\* what a decision records of the world it was taken in
Decision(variant, symbol, side, accepted, why) ==
    [variant |-> variant, symbol |-> symbol, side |-> side, accepted |-> accepted,
     why |-> why, at |-> nowMin,
     open_symbol |-> Cardinality(positions(symbol)),
     open_all |-> Cardinality(positions("ALL")),
     equity |-> account.equity,
     day_pnl |-> account.profit + SumProfit(positions("ALL"))]

\* app/risk/guards.py check_pretrade_guards
check_pretrade_guards(symbol, side, market_open) ==
    LET why == pretrade_reasons(symbol, side, market_open)
    IN  /\ genv.module = "pretrade"
        /\ guard' = Decision("pretrade", symbol, side, why = <<>>, why)
        /\ UNCHANGED <<account, genv, LAST_REJECT_MIN, last_trade_at>>
        /\ UNCHANGED <<pos, nowMin, trailVars, sizeVars, orderVars, auxVars>>

\* app/risk/guards.py note_trade
note_trade(symbol) ==
    /\ genv.module = "pretrade"
    /\ last_trade_at' = [last_trade_at EXCEPT ![symbol] = nowMin]
    /\ guard' = NoDecision
    /\ UNCHANGED <<account, genv, LAST_REJECT_MIN, pos, nowMin, trailVars, sizeVars, orderVars, auxVars>>

\* agentic-trader-drop/app/risk/guards.py _same_side
same_side(pos_side) ==
    IF pos_side \in {"BUY", "LONG"} THEN "LONG"
    ELSE IF pos_side \in {"SELL", "SHORT"} THEN "SHORT" ELSE ""

\* the first failing check of the drop-in risk_guard, with whether the
\* rejection is written to _LAST_REJECT_MIN; "ok" when none fails
drop_verdict(symbol, side, trading, in_session, positions_ok) ==
    LET last_reject == LAST_REJECT_MIN[symbol]
        sym_positions == positions(symbol)
        all_positions == positions("ALL")
        eq_val == IF account.ok THEN account.equity ELSE 0
    IN  IF side \notin {"LONG", "SHORT"} THEN <<"invalid side", FALSE>>
        ELSE IF genv.cooldown_min > 0 /\ nowMin - last_reject < genv.cooldown_min
        THEN <<"cooldown", FALSE>>
        ELSE IF genv.market_check /\ trading = "closed" THEN <<"closed", TRUE>>
        ELSE IF ~in_session THEN <<"outside session window", TRUE>>
        ELSE IF ~positions_ok THEN <<"positions_error", TRUE>>
        ELSE IF Cardinality(sym_positions) >= genv.cap_sym
        THEN <<"per-symbol cap reached", TRUE>>
        ELSE IF Cardinality(all_positions) >= genv.cap_all
        THEN <<"global cap reached", TRUE>>
        ELSE IF genv.block_same
                /\ \E t \in sym_positions : same_side(pos[t].side) = side
        THEN <<"same-side open", TRUE>>
        ELSE IF SumProfit(sym_positions) < genv.min_symbol_pnl
        THEN <<"floating PnL", TRUE>>
        ELSE IF account.ok /\ genv.floor > 0 /\ eq_val # 0 /\ eq_val < genv.floor
        THEN <<"equity floor", TRUE>>
        ELSE <<"ok", FALSE>>

\* a variant that stamps the instrument on every evaluation
reject_written_always(symbol, v) ==
    LAST_REJECT_MIN' = [LAST_REJECT_MIN EXCEPT ![symbol] = nowMin]

\* the drop-in risk_guard writes _LAST_REJECT_MIN[symbol] = now_minute on the
\* rejections that carry the mark, and on nothing else
reject_written(symbol, v) ==
    LAST_REJECT_MIN' = IF v[2] THEN [LAST_REJECT_MIN EXCEPT ![symbol] = nowMin]
                       ELSE LAST_REJECT_MIN

\* agentic-trader-drop/app/risk/guards.py risk_guard
risk_guard_drop(symbol, side, trading, in_session, positions_ok) ==
    LET v == drop_verdict(symbol, side, trading, in_session, positions_ok)
    IN  /\ genv.module = "drop"
        /\ guard' = Decision("drop", symbol, side, v[1] = "ok",
                             IF v[1] = "ok" THEN <<>> ELSE <<v[1]>>)
        /\ reject_written(symbol, v)
        /\ UNCHANGED <<account, genv, last_trade_at, pos, nowMin, trailVars, sizeVars, orderVars, auxVars>>

\* the first failing check of guards.py risk_guard; "ok" when none fails
legacy_verdict(symbol, side) ==
    LET pos_sym == positions(symbol)
        pos_all == positions("ALL")
        same_side_pos == {t \in pos_sym : (pos[t].side = "BUY") = (side = "LONG")}
        newest == IF same_side_pos = {} THEN 0
                  ELSE CHOOSE m \in {pos[t].time : t \in same_side_pos} :
                         \A t \in same_side_pos : pos[t].time <= m
        equity == IF account.ok THEN account.equity ELSE 0
        balance == IF account.ok THEN account.balance ELSE 0
    IN  IF Cardinality(pos_sym) >= genv.cap_sym THEN "per-symbol cap reached"
        ELSE IF Cardinality(pos_all) >= genv.cap_all THEN "global cap reached"
        ELSE IF genv.block_same /\ side \in {"LONG", "SHORT"} /\ same_side_pos # {}
                /\ genv.cooldown_min <= 0
        THEN "same-side open"
        ELSE IF genv.block_same /\ side \in {"LONG", "SHORT"} /\ same_side_pos # {}
                /\ nowMin - newest < genv.cooldown_min
        THEN "same-side cooldown active"
        ELSE IF SumProfit(pos_sym) < genv.min_symbol_pnl THEN "floating PnL"
        ELSE IF genv.floor > 0 /\ equity < genv.floor THEN "equity floor"
        ELSE IF genv.daily_limit > 0 /\ balance - equity > genv.daily_limit
        THEN "daily loss"
        ELSE "ok"

\* guards.py risk_guard
risk_guard_legacy(symbol, side) ==
    LET v == legacy_verdict(symbol, side)
    IN  /\ genv.module = "legacy"
        /\ guard' = Decision("legacy", symbol, side, v = "ok",
                             IF v = "ok" THEN <<>> ELSE <<v>>)
        /\ UNCHANGED <<account, genv, LAST_REJECT_MIN, last_trade_at>>
        /\ UNCHANGED <<pos, nowMin, trailVars, sizeVars, orderVars, auxVars>>

\* ---- environment of the guards
Accounts ==
    {[ok |-> TRUE, equity |-> 100, balance |-> 150, profit |-> 0],
     [ok |-> TRUE, equity |-> 120, balance |-> 150, profit |-> 0],
     [ok |-> TRUE, equity |-> 90, balance |-> 150, profit |-> -50],
     [ok |-> FALSE, equity |-> 120, balance |-> 150, profit |-> 0]}

AccountChange(a) ==
    /\ account # a
    /\ account' = a
    /\ guard' = NoDecision
    /\ UNCHANGED <<genv, LAST_REJECT_MIN, last_trade_at, pos, nowMin, trailVars, sizeVars, orderVars, auxVars>>

\* the settings with no check able to fail, and the value that arms each check;
\* module is the guard module the deployment imports
NeutralEnv ==
    [module |-> "pretrade", market_check |-> FALSE, cooldown_min |-> 0, cap_all |-> 6,
     cap_sym |-> 6, cap_side |-> 0, block_same |-> FALSE, floor |-> 0,
     daily_limit |-> 0, min_symbol_pnl |-> -9999]

ArmedEnv ==
    [module |-> "pretrade", market_check |-> TRUE, cooldown_min |-> 1, cap_all |-> 3,
     cap_sym |-> 2, cap_side |-> 1, block_same |-> TRUE, floor |-> 100,
     daily_limit |-> 40, min_symbol_pnl |-> -30]

\* the checks armed together in one group of settings
ArmedTogether ==
    {{}} \cup {{k} : k \in DOMAIN NeutralEnv \ {"module"}}
    \cup {{"cap_sym", "daily_limit"}, {"floor", "daily_limit"}, {"cooldown_min", "cap_sym"},
          {"cooldown_min", "market_check"}, {"block_same", "cap_side"},
          {"cap_all", "floor"}, {"block_same", "cooldown_min"}}

GuardModules == {"pretrade", "drop", "legacy"}

GuardEnvs ==
    {[k \in DOMAIN NeutralEnv |->
        IF k = "module" THEN m ELSE IF k \in on THEN ArmedEnv[k] ELSE NeutralEnv[k]] :
        on \in ArmedTogether, m \in GuardModules}

\* the books of open positions the guards are evaluated against
Books ==
    LET p1(o) == [Position("EURUSD", "BUY", 100, 0, o) EXCEPT !.profit = -20, !.time = 1]
        p2(o) == [Position("EURUSD", "SELL", 100, 0, o) EXCEPT !.profit = 10, !.time = 1]
        p3(o) == [Position("US30", "BUY", 100, 0, o) EXCEPT !.profit = -40, !.time = 1]
    IN  {[t \in Tickets |-> IF t = 1 THEN p1(o[1]) ELSE IF t = 2 THEN p2(o[2]) ELSE p3(o[3])] :
           o \in {<<FALSE, FALSE, FALSE>>, <<TRUE, FALSE, FALSE>>,
                  <<TRUE, TRUE, FALSE>>, <<TRUE, TRUE, TRUE>>}}

GuardInit ==
    /\ pos \in Books
    /\ nowMin = 1
    /\ trailEnv = NoConfig
    /\ TrailIdle
    /\ account \in Accounts
    /\ genv \in GuardEnvs
    /\ LAST_REJECT_MIN = [s \in Symbols |-> 0]
    /\ last_trade_at = [s \in Symbols |-> 0]
    /\ guard = NoDecision
    /\ SizeIdle
    /\ OrderIdle
    /\ ThreadsIdle
    /\ RunnerIdle
    /\ StopsIdle

\* the sides a caller passes; "" stands for any value that is neither LONG nor SHORT
GuardSides == {"LONG", "SHORT", ""}

GuardNext ==
    \/ \E s \in Symbols, side \in GuardSides, market_open \in BOOLEAN :
          check_pretrade_guards(s, side, market_open)
    \/ \E s \in Symbols, side \in GuardSides, trading \in {"open", "closed", "raise"},
          in_session \in BOOLEAN, positions_ok \in BOOLEAN :
          risk_guard_drop(s, side, trading, in_session, positions_ok)
    \/ \E s \in Symbols, side \in GuardSides : risk_guard_legacy(s, side)
    \/ \E s \in Symbols : note_trade(s)
    \/ \E a \in Accounts : AccountChange(a)
    \/ ClockTick

GuardSpec == GuardInit /\ [][GuardNext]_vars

\* the cooldown store of the deployed guard module
cooldown_store ==
    IF genv.module = "drop" THEN LAST_REJECT_MIN ELSE last_trade_at

Evaluated == guard.variant # "none"

\* C2: every accepted evaluation finds the instrument's open count strictly
\* below the per-instrument cap, the total open count strictly below the global
\* cap and, when an equity floor > 0 is configured, the account equity strictly
\* above the floor.
C2_AcceptedWithinLimits ==
    (Evaluated /\ guard.accepted) =>
        /\ guard.open_symbol < genv.cap_sym
        /\ guard.open_all < genv.cap_all
        /\ genv.floor > 0 => guard.equity > genv.floor

\* C7: after any rejection by check_pretrade_guards or by the drop-in risk_guard
\* the instrument's cooldown entry holds the time of the evaluation.
C7_RejectionRecorded ==
    (Evaluated /\ guard.variant \in {"pretrade", "drop"} /\ ~guard.accepted) =>
        cooldown_store[guard.symbol] = guard.at

\* C8: with a daily loss limit > 0 configured and the day's realized plus
\* floating loss beyond it, every evaluation is rejected and carries a daily
\* loss limit reason, whatever the other checks say.
C8_DailyLossRejects ==
    (Evaluated /\ genv.daily_limit > 0 /\ guard.day_pnl < -genv.daily_limit) =>
        /\ ~guard.accepted
        /\ \E i \in 1..Len(guard.why) :
              guard.why[i] \in {"daily_loss_limit_hit", "daily loss"}

\* C15: an evaluation that returns accepted writes no cooldown entry: the
\* step that produces an accepted decision leaves _LAST_REJECT_MIN and
\* _last_trade_at as they were, for every instrument.
C15_AcceptLeavesCooldown ==
    [][ (guard'.variant # "none" /\ guard'.accepted)
        => (LAST_REJECT_MIN' = LAST_REJECT_MIN /\ last_trade_at' = last_trade_at) ]_vars

\* C15 witness: the drop-in guard accepted a signal one minute after it had
\* rejected the instrument, and the entry of that rejection is still in place
C15_Witness ==
    /\ guard.variant = "drop" /\ guard.accepted
    /\ guard.at = 2
    /\ LAST_REJECT_MIN[guard.symbol] = 1

\* C22: with the same-side block enabled, every evaluation of a LONG or SHORT
\* signal is rejected while an open position on the instrument has that side,
\* whatever the age of the position and whatever the cooldown setting.
C22_SameSideRejected ==
    (Evaluated /\ genv.block_same /\ guard.side \in {"LONG", "SHORT"}
       /\ \E t \in positions(guard.symbol) : IsLong(pos[t].side) = (guard.side = "LONG"))
    => ~guard.accepted

\* C23: every check is evaluated on every call: an evaluation that finds the
\* global cap reached and the equity below the floor at once returns a reason
\* for each of the two checks.
C23_EveryFailureReported ==
    (Evaluated /\ guard.side \in {"LONG", "SHORT"} /\ account.ok
       /\ genv.cap_all > 0 /\ guard.open_all >= genv.cap_all
       /\ genv.floor > 0 /\ guard.equity < genv.floor)
    => /\ \E i \in 1..Len(guard.why) :
             guard.why[i] \in {"max_open_reached", "global cap reached"}
       /\ \E i \in 1..Len(guard.why) :
             guard.why[i] \in {"equity_floor_breached", "equity floor"}

\* ---- the cooldown alone: an instrument that is evaluated again and again
\* while the minutes pass, under settings in which no other check can fail
MaxWait == 3

\* the minutes pass while the guards wait for the next evaluation
CoolTick ==
    /\ nowMin < MaxWait
    /\ nowMin' = nowMin + 1
    /\ guard' = NoDecision
    /\ UNCHANGED <<pos, trailVars, sizeVars, orderVars, auxVars, account, genv,
                   LAST_REJECT_MIN, last_trade_at>>

\* one more evaluation of the instrument, the market open and in session
CoolEvaluate(s) ==
    \E side \in {"LONG", "SHORT"} :
        \/ check_pretrade_guards(s, side, TRUE)
        \/ risk_guard_drop(s, side, "open", TRUE, TRUE)

\* the guards one minute after timestamps were recorded for some instruments
\* (a trade noted, a rejection written), with a cooldown of two minutes
CoolInit ==
    /\ pos \in Books
    /\ nowMin = 1
    /\ trailEnv = NoConfig
    /\ TrailIdle
    /\ account \in Accounts
    /\ genv \in {[NeutralEnv EXCEPT !.module = m, !.cooldown_min = 2] :
                    m \in {"pretrade", "drop"}}
    /\ \E stamp \in [Symbols -> {0, 1}] :
          /\ LAST_REJECT_MIN = IF genv.module = "drop" THEN stamp
                               ELSE [s \in Symbols |-> 0]
          /\ last_trade_at = IF genv.module = "pretrade" THEN stamp
                             ELSE [s \in Symbols |-> 0]
    /\ guard = NoDecision
    /\ SizeIdle
    /\ OrderIdle
    /\ ThreadsIdle
    /\ RunnerIdle
    /\ StopsIdle

CoolNext ==
    \/ \E s \in Symbols : CoolEvaluate(s)
    \/ CoolTick

CoolSpec == CoolInit /\ [][CoolNext]_vars

\* the clock runs and every instrument is evaluated again and again
CoolLiveSpec ==
    CoolSpec /\ WF_vars(CoolTick) /\ \A s \in Symbols : WF_vars(CoolEvaluate(s))

CooldownRejection(g) ==
    g.variant # "none" /\ ~g.accepted /\ g.why \in {<<"cooldown_active">>, <<"cooldown">>}

\* C29: a rejection whose cause is the cooldown leaves the instrument's
\* cooldown timestamp as it was, and an instrument that keeps being evaluated
\* with no other check failing is accepted in the end, once the window has
\* elapsed since the recorded timestamp.
C29_CooldownLifts ==
    /\ [][ CooldownRejection(guard')
            => (LAST_REJECT_MIN' = LAST_REJECT_MIN /\ last_trade_at' = last_trade_at) ]_vars
    /\ \A s \in Symbols :
          (CooldownRejection(guard) /\ guard.symbol = s)
              ~> (Evaluated /\ guard.symbol = s /\ guard.accepted)

\* C29 witness: an instrument with a timestamp of minute 1 is accepted at
\* minute 3, the timestamp untouched by the evaluations in between
C29_Witness ==
    /\ Evaluated /\ guard.accepted /\ guard.at = 3
    /\ cooldown_store[guard.symbol] = 1

\* ------------------------------------------------------------------------
\* Position sizing: app/util/sizing.py and app/risk/risk.py.  Quantities are
\* hundredths of a lot, truncated; RISK_PCT is counted in percent.
\* ------------------------------------------------------------------------
\* mt5.symbol_info of the traded instrument
Instrument ==
    [point |-> 1, digits |-> 5, trade_tick_size |-> 1,
     volume_min |-> 10, volume_max |-> 50, volume_step |-> 10]

\* sizing.py lots_override_for
lots_override_for(default_lots) ==
    IF senv.env_lots # None THEN senv.env_lots[1] ELSE default_lots

\* sizing.py _pip_to_price (a symbol that is not gold)
pip_to_price(pips) == pips * Instrument.point * 10

\* sizing.py _risk_lots_from_sl
risk_lots_from_sl(sl_price_distance, risk_amount) ==
    IF ~senv.info THEN None
    ELSE LET tv == senv.tick_value
             ts == IF Instrument.trade_tick_size # 0 THEN Instrument.trade_tick_size
                   ELSE Instrument.point
         IN  IF ts = 0 \/ tv = 0 THEN None
             ELSE LET risk_per_lot == (sl_price_distance * tv) \div ts
                  IN  IF risk_per_lot <= 0 THEN None
                      ELSE Some((100 * risk_amount) \div risk_per_lot)

\* the fixed-mode answer of compute_lot (lines 108-110)
fixed_lot(env_lots, default_lots) ==
    IF env_lots # None THEN env_lots[1] ELSE default_lots

\* sizing.py compute_lot
compute_lot(sl_pips, mode, default_lots_arg) ==
    LET m == IF mode # "" THEN mode ELSE senv.mode
        default_lots == IF default_lots_arg # None THEN default_lots_arg[1]
                        ELSE senv.default_lots
        env_lots == senv.env_lots
        fixed == fixed_lot(env_lots, default_lots)
    IN  IF m = "fixed" \/ sl_pips = None THEN fixed
        ELSE IF ~senv.account_ok THEN fixed
        ELSE LET risk_amount == Max(0, (senv.balance * senv.risk_pct) \div 100)
                 sl_dist == pip_to_price(sl_pips[1])
                 lots == risk_lots_from_sl(sl_dist, risk_amount)
             IN  IF lots = None THEN fixed
                 ELSE LET max_lot == IF env_lots # None
                                     THEN Min(senv.max_lot, env_lots[1])
                                     ELSE senv.max_lot
                          clamped == Max(senv.min_lot, Min(max_lot, lots[1]))
                          step == Instrument.volume_step
                      IN  IF senv.info /\ step # 0
                          THEN Max((clamped \div step) * step, step)
                          ELSE clamped

\* risk.py _account_equity
size_account_equity ==
    IF ~senv.account_ok THEN 0
    ELSE IF senv.equity > 0 THEN senv.equity ELSE senv.balance

\* risk.py pip_value_per_lot
pip_value_per_lot ==
    IF ~senv.info THEN 10
    ELSE LET pip == 10 * Instrument.point
             per_pip == (pip \div Instrument.point) * senv.tick_value
         IN  IF Instrument.trade_tick_size # 0 /\ senv.tick_value # 0
                /\ Instrument.point # 0 /\ per_pip > 0
             THEN per_pip ELSE 10

\* risk.py size_from_risk
size_from_risk(sl_pips, risk_dollars, risk_pct, min_lot, max_lot) ==
    LET eq == size_account_equity
        min_l == IF min_lot # None THEN min_lot[1] ELSE senv.min_lot
        max_l == IF max_lot # None THEN max_lot[1] ELSE senv.max_lot
        rd0 == IF risk_dollars # None THEN risk_dollars[1] ELSE 0
        rd1 == IF rd0 <= 0 /\ risk_pct # None /\ risk_pct # Some(0) /\ eq > 0
               THEN IF risk_pct[1] > 0 THEN (eq * risk_pct[1]) \div 100 ELSE rd0
               ELSE rd0
        rd == IF rd1 > 0 THEN rd1
              ELSE IF senv.risk_dollars > 0 THEN senv.risk_dollars
              ELSE IF senv.risk_pct > 0 /\ eq > 0 THEN (eq * senv.risk_pct) \div 100
              ELSE rd1
    IN  IF rd <= 0 \/ sl_pips <= 0 THEN Max(min_l, 0)
        ELSE LET per_pip_1lot == pip_value_per_lot
                 lots == (100 * rd) \div (per_pip_1lot * sl_pips)
             IN  IF lots < min_l THEN min_l
                 ELSE IF 100 * rd > max_l * per_pip_1lot * sl_pips THEN max_l
                 ELSE lots

\* risk.py _per_symbol_lots
per_symbol_lots(fallback) ==
    IF senv.env_lots # None THEN senv.env_lots[1] ELSE senv.default_lots

\* risk.py compute_order_size
compute_order_size(sl_pips) ==
    IF senv.mode = "fixed" THEN per_symbol_lots(1)
    ELSE LET sp == IF sl_pips # None THEN sl_pips[1] ELSE 0
         IN  size_from_risk(IF sp > 0 THEN sp ELSE 1, None, None, None, None)

\* ---- one action per sizing entry point
ComputeLot(sl_pips, mode) ==
    /\ sized' = [fn |-> "compute_lot", sl_pips |-> sl_pips,
                 min_lot |-> senv.min_lot, max_lot |-> senv.max_lot,
                 out |-> compute_lot(sl_pips, mode, None)]
    /\ UNCHANGED <<senv, pos, nowMin, trailVars, guardVars, orderVars, auxVars>>

SizeFromRisk(sl_pips, risk_dollars, risk_pct) ==
    /\ sized' = [fn |-> "size_from_risk", sl_pips |-> Some(sl_pips),
                 min_lot |-> senv.min_lot, max_lot |-> senv.max_lot,
                 out |-> size_from_risk(sl_pips, risk_dollars, risk_pct, None, None)]
    /\ UNCHANGED <<senv, pos, nowMin, trailVars, guardVars, orderVars, auxVars>>

ComputeOrderSize(sl_pips) ==
    /\ sized' = [fn |-> "compute_order_size", sl_pips |-> sl_pips,
                 min_lot |-> senv.min_lot, max_lot |-> senv.max_lot,
                 out |-> compute_order_size(sl_pips)]
    /\ UNCHANGED <<senv, pos, nowMin, trailVars, guardVars, orderVars, auxVars>>

\* the sizing settings, account states and symbol metadata considered
SizeEnvs ==
    {e \in [mode : {"fixed", "risk"}, env_lots : {None, Some(0), Some(50), Some(500)},
            default_lots : {1}, risk_pct : {0, 1}, risk_dollars : {0, 100},
            min_lot : {1}, max_lot : {100}, account_ok : BOOLEAN,
            equity : {0, 10000}, balance : {0, 10000}, info : BOOLEAN,
            tick_value : {0, 1}] :
        /\ e.balance = 0 => e.equity = 0
        /\ ~e.account_ok => e.equity = 10000 /\ e.balance = 10000
        /\ ~e.info => e.tick_value = 1}

\* stop distances in pips handed to the sizing functions
SizePips == {-5, 0, 2, 20}

SizeInit ==
    /\ pos = [t \in Tickets |-> Position("EURUSD", "BUY", 100, 0, FALSE)]
    /\ nowMin = 1
    /\ trailEnv = NoConfig
    /\ TrailIdle
    /\ GuardIdle
    /\ senv \in SizeEnvs
    /\ sized = NoSizing
    /\ OrderIdle
    /\ ThreadsIdle
    /\ RunnerIdle
    /\ StopsIdle

SizeNext ==
    \/ \E sl_pips \in {None} \cup {Some(p) : p \in SizePips}, mode \in {"", "fixed", "risk"} :
          ComputeLot(sl_pips, mode)
    \/ \E sl_pips \in SizePips, risk_dollars \in {None, Some(0), Some(100)},
          risk_pct \in {None, Some(1)} : SizeFromRisk(sl_pips, risk_dollars, risk_pct)
    \/ \E sl_pips \in {None} \cup {Some(p) : p \in SizePips} : ComputeOrderSize(sl_pips)

SizeSpec == SizeInit /\ [][SizeNext]_vars

\* C10: compute_lot and size_from_risk return a quantity q with
\* minLot <= q <= maxLot for every mode, override and stop distance, zero and
\* negative distances included.
C10_SizeWithinLots ==
    sized.fn \in {"compute_lot", "size_from_risk"} =>
        sized.min_lot <= sized.out /\ sized.out <= sized.max_lot

\* ------------------------------------------------------------------------
\* Order execution: app/brokers/mt5_client.py place_order and _attach_sltp,
\* app/exec/executor.py execute_market_order, app/main.py orders_market
\* ------------------------------------------------------------------------
TRADE_CONTEXT_BUSY == 10016
INVALID_STOPS == 10004
TRADE_RETCODE_DONE == 10009
\* default of MT5_MIN_STOP_POINTS in _ensure_min_stops
MT5_MIN_STOP_POINTS == 300

\* what mt5.order_send can answer: nothing, an exception, or a result
NoReply == [kind |-> "none"]
Raised == [kind |-> "raise"]
Reply(retcode, comment, order) ==
    [kind |-> "reply", retcode |-> retcode, comment |-> comment, order |-> order]

\* the ticket the broker gives to the position a fill opens
FillTicket == CHOOSE t \in Tickets : \A u \in Tickets : u <= t

BrokerReplies ==
    {NoReply, Raised,
     Reply(TRADE_RETCODE_DONE, "Request executed", FillTicket),
     Reply(TRADE_RETCODE_DONE, "Request executed", 0),
     Reply(TRADE_CONTEXT_BUSY, "Trade context busy", 0),
     Reply(INVALID_STOPS, "", 0),
     Reply(10013, "Invalid stops", 0),
     Reply(10017, "Trade disabled", 0)}

\* mt5.symbol_info_tick of the traded instrument
Tick == [bid |-> 1000, ask |-> 1002]

\* mt5_client.py _get_side
get_side(side) == IF side \in {"SELL", "SHORT"} THEN "SELL" ELSE "BUY"

\* mt5_client.py _comment_is_invalid_stops
comment_is_invalid_stops(comment) ==
    comment \in {"Invalid stops", "Invalid SL", "Invalid TP"}

\* Python round(): halves go to the even neighbour (n >= 0, d > 0)
RoundHalfEven(n, d) ==
    LET q == n \div d
        r == n % d
    IN  IF 2 * r < d THEN q
        ELSE IF 2 * r > d THEN q + 1
        ELSE IF q % 2 = 0 THEN q ELSE q + 1

\* mt5_client.py _adjust_volume
adjust_volume(vol) ==
    IF ~oenv.has_info THEN vol
    ELSE LET clamped == Max(Instrument.volume_min, Min(vol, Instrument.volume_max))
         IN  RoundHalfEven(clamped, Instrument.volume_step) * Instrument.volume_step

\* mt5_client.py _ensure_market_price
ensure_market_price(side, tick_ok, current) ==
    IF ~tick_ok THEN current
    ELSE IF side = "BUY" THEN Tick.ask ELSE Tick.bid

\* mt5_client.py _compute_sl_tp (mt5_point mode: one pip is one point)
compute_sl_tp(side, price, sl_pips, tp_pips) ==
    LET mult == Instrument.point
    IN  IF side = "BUY" THEN <<price - sl_pips * mult, price + tp_pips * mult>>
        ELSE <<price + sl_pips * mult, price - tp_pips * mult>>

\* mt5_client.py _ensure_min_stops
ensure_min_stops(side, price, sl, tp) ==
    IF ~oenv.has_info THEN <<sl, tp>>
    ELSE LET min_stop == IF oenv.stops_level <= 0 THEN MT5_MIN_STOP_POINTS
                         ELSE oenv.stops_level
             dist == min_stop * Instrument.point
         IN  IF side = "BUY"
             THEN <<IF price - sl < dist THEN price - dist ELSE sl,
                    IF tp - price < dist THEN price + dist ELSE tp>>
             ELSE <<IF sl - price < dist THEN price + dist ELSE sl,
                    IF price - tp < dist THEN price - dist ELSE tp>>

\* the stops place_order puts on the request for the given pip distances
stops_for(side, price, sl_pips, tp_pips) ==
    LET raw == compute_sl_tp(side, price, sl_pips, tp_pips)
    IN  ensure_min_stops(side, price, raw[1], raw[2])

\* the pip distance after one widen step (place_order lines 311-312)
widen(pips) == pips * oenv.widen_mult

\* one request as it went to the broker, with the class of the answer
SentOf(req, kind, position, reply_class) ==
    [kind |-> kind, volume |-> req.volume, price |-> req.price,
     sl |-> IF kind = "naked" THEN 0 ELSE req.sl,
     tp |-> IF kind = "naked" THEN 0 ELSE req.tp,
     position |-> position, reply |-> reply_class]

Sent(kind, position, reply_class) == SentOf(oreq, kind, position, reply_class)

\* the broker opens a position when it fills a market order
Fill(side, price, sl) ==
    [pos EXCEPT ![FillTicket] = Position("EURUSD", side, price, sl, TRUE)]

\* the running call has one more result of the broker in hand
hears(reply) == heard' = IF reply.kind = "reply" THEN reply ELSE heard

CanAnswer(reply) ==
    (reply.kind = "reply" /\ reply.retcode = TRADE_RETCODE_DONE) => ~pos[FillTicket].open

Return(result) ==
    /\ opc' = "done"
    /\ oresult' = result
    /\ oattempt' = 0

\* more_attempts with one attempt beyond the budget
more_attempts_extra(n) == n <= oenv.retries

\* whether a retry loop has another attempt after attempt number n
more_attempts(n) == n < oenv.retries

\* place_order up to its first retry loop (lines 205-282)
place_order(symbol, side_in, sl_pips, tp_pips, tick_ok) ==
    /\ opc = "idle"
    /\ LET side == get_side(side_in)
           volume == adjust_volume(lots_override_for(senv.default_lots))
           price == ensure_market_price(side, tick_ok, 0)
           st == stops_for(side, price, sl_pips, tp_pips)
           req == [symbol |-> symbol, side |-> side, volume |-> volume, price |-> price,
                   sl_pips |-> sl_pips, tp_pips |-> tp_pips, sl |-> st[1], tp |-> st[2],
                   tick_ok |-> tick_ok]
       IN  IF symbol = ""
           THEN Return([NoResult EXCEPT !.error = "missing_symbol"]) /\ UNCHANGED oreq
           ELSE IF oenv.mode = "dry_run"
           THEN Return([NoResult EXCEPT !.ok = TRUE, !.comment = "dry_run"]) /\ oreq' = req
           ELSE IF oenv.mode = "test"
           THEN Return([NoResult EXCEPT !.ok = TRUE, !.comment = "simulated",
                                        !.ticket = 999999]) /\ oreq' = req
           ELSE IF ~oenv.has_info
           THEN Return([NoResult EXCEPT !.error = "no_symbol_info"]) /\ oreq' = req
           ELSE /\ opc' = "protected"
                /\ oattempt' = 1
                /\ oreq' = req
                /\ UNCHANGED oresult
    /\ UNCHANGED <<oenv, olog, last_result, order_ticket, heard>>
    /\ UNCHANGED <<pos, nowMin, trailVars, guardVars, sizeVars, auxVars>>

\* the branch an answer takes inside the stop-protected loop (lines 285-321);
\* an exception, no response and a busy trade context all sleep and continue
protected_class(reply) ==
    IF reply.kind \in {"none", "raise"} THEN "retry"
    ELSE IF reply.retcode = TRADE_RETCODE_DONE THEN "done"
    ELSE IF reply.retcode = TRADE_CONTEXT_BUSY THEN "retry"
    ELSE IF reply.retcode = INVALID_STOPS \/ comment_is_invalid_stops(reply.comment)
    THEN "invalid_stops"
    ELSE "other"

\* one pass of the stop-protected loop of place_order (lines 284-321)
ProtectedAttempt(reply) ==
    /\ opc = "protected"
    /\ CanAnswer(reply)
    /\ LET cls == protected_class(reply)
           widened == stops_for(oreq.side, oreq.price, widen(oreq.sl_pips),
                                widen(oreq.tp_pips))
       IN  /\ olog' = Append(olog, Sent("protected", 0, cls))
           /\ IF cls = "done"
              THEN /\ Return([NoResult EXCEPT !.ok = TRUE, !.retcode = reply.retcode,
                                              !.comment = reply.comment, !.result = reply])
                   /\ pos' = Fill(oreq.side, oreq.price, oreq.sl)
                   /\ UNCHANGED <<oreq, last_result>>
              ELSE /\ oreq' = IF cls = "invalid_stops"
                              THEN [oreq EXCEPT !.sl_pips = widen(oreq.sl_pips),
                                                !.tp_pips = widen(oreq.tp_pips),
                                                !.sl = widened[1], !.tp = widened[2]]
                              ELSE oreq
                   /\ last_result' = IF cls = "other" THEN reply ELSE last_result
                   /\ IF more_attempts(oattempt)
                      THEN oattempt' = oattempt + 1 /\ opc' = opc
                      ELSE oattempt' = 1 /\ opc' = "naked"
                   /\ UNCHANGED <<pos, oresult>>
    /\ hears(reply)
    /\ UNCHANGED <<oenv, order_ticket>>
    /\ UNCHANGED <<nowMin, trailVars, guardVars, sizeVars, auxVars>>

\* what place_order returns when the naked loop leaves no ticket (lines 354-356)
naked_failure ==
    [NoResult EXCEPT !.result = IF last_result.kind # "none" THEN last_result
                                ELSE [kind |-> "error", error |-> "failed_naked_order"]]

\* one pass of the naked loop of place_order (lines 329-356)
NakedAttempt(reply) ==
    /\ opc = "naked"
    /\ CanAnswer(reply)
    /\ LET done == reply.kind = "reply" /\ reply.retcode = TRADE_RETCODE_DONE
       IN  /\ olog' = Append(olog, Sent("naked", 0, IF done THEN "done" ELSE "failed"))
           /\ IF done
              THEN /\ order_ticket' = reply.order
                   /\ pos' = Fill(oreq.side, oreq.price, 0)
                   /\ IF reply.order = 0
                      THEN Return(naked_failure)
                      ELSE opc' = "attach" /\ oattempt' = 1 /\ UNCHANGED oresult
              ELSE /\ IF more_attempts(oattempt)
                      THEN oattempt' = oattempt + 1 /\ opc' = opc /\ UNCHANGED oresult
                      ELSE Return(naked_failure)
                   /\ UNCHANGED <<pos, order_ticket>>
    /\ hears(reply)
    /\ UNCHANGED <<oenv, oreq, last_result>>
    /\ UNCHANGED <<nowMin, trailVars, guardVars, sizeVars, auxVars>>

\* the branch an answer takes inside _attach_sltp (lines 165-197); an exception,
\* no response, a busy trade context and any other rejection sleep and continue
attach_class(reply) ==
    IF reply.kind \in {"none", "raise"} THEN "retry"
    ELSE IF reply.retcode = TRADE_RETCODE_DONE THEN "done"
    ELSE IF reply.retcode = TRADE_CONTEXT_BUSY THEN "retry"
    ELSE IF reply.retcode = INVALID_STOPS \/ comment_is_invalid_stops(reply.comment)
    THEN "invalid_stops"
    ELSE "retry"

\* attach_outcome with the failed attach reported like a successful one
attach_outcome_lost(ticket, attach_ok) ==
    [NoResult EXCEPT !.ok = TRUE, !.ticket = ticket,
                     !.retcode = TRADE_RETCODE_DONE, !.comment = "attached_sltp"]

\* what place_order returns once _attach_sltp has answered (lines 358-372)
attach_outcome(ticket, attach_ok) ==
    IF ~attach_ok
    THEN [NoResult EXCEPT !.ok = TRUE, !.ticket = ticket, !.warning = "sltp_attach_failed"]
    ELSE [NoResult EXCEPT !.ok = TRUE, !.ticket = ticket,
                          !.retcode = TRADE_RETCODE_DONE, !.comment = "attached_sltp"]

\* one pass of the loop of _attach_sltp, and place_order's return after it
AttachAttempt(reply) ==
    /\ opc = "attach"
    /\ reply.kind = "reply" => reply.order = 0
    /\ LET cls == attach_class(reply)
       IN  /\ olog' = Append(olog, Sent("attach", order_ticket, cls))
           /\ IF cls = "done"
              THEN /\ Return(attach_outcome(order_ticket, TRUE))
                   /\ pos' = [pos EXCEPT ![order_ticket].sl = oreq.sl]
              ELSE IF cls = "invalid_stops" \/ ~more_attempts(oattempt)
              THEN Return(attach_outcome(order_ticket, FALSE)) /\ UNCHANGED pos
              ELSE /\ oattempt' = oattempt + 1
                   /\ UNCHANGED <<opc, oresult, pos>>
    /\ hears(reply)
    /\ UNCHANGED <<oenv, oreq, last_result, order_ticket>>
    /\ UNCHANGED <<nowMin, trailVars, guardVars, sizeVars, auxVars>>

\* executor.py _pip_size (a 5-digit symbol that is not gold)
exec_pip_size ==
    IF Instrument.digits \in {3, 5} /\ Instrument.point # 0 THEN 10 * Instrument.point
    ELSE Instrument.point

\* executor.py calc_sl_tp_from_pips; a missing price is written 0
calc_sl_tp_from_pips(side, entry_price, sl_pips, tp_pips) ==
    LET long == side \in {"BUY", "LONG"}
        sl == IF sl_pips = None THEN 0
              ELSE IF long THEN entry_price - sl_pips[1] * exec_pip_size
              ELSE entry_price + sl_pips[1] * exec_pip_size
        tp == IF tp_pips = None THEN 0
              ELSE IF long THEN entry_price + tp_pips[1] * exec_pip_size
              ELSE entry_price - tp_pips[1] * exec_pip_size
    IN  <<sl, tp>>

\* what execute_market_order returns when it reports the order (lines 219-228)
exec_report(reply) ==
    [NoResult EXCEPT !.ok = reply.retcode = TRADE_RETCODE_DONE,
                     !.status = IF reply.retcode = TRADE_RETCODE_DONE THEN "ok"
                                ELSE "partial",
                     !.retcode = reply.retcode, !.ticket = reply.order, !.result = reply]

\* what execute_market_order returns when no widened modify succeeded (212-217)
exec_attach_failed(reply) ==
    [NoResult EXCEPT !.status = "error", !.retcode = reply.retcode,
                     !.comment = reply.comment, !.result = reply]

\* executor.py execute_market_order up to its widen loop (lines 103-161)
execute_market_order(side, volume, sl_pips, tp_pips, tick_ok, reply) ==
    /\ opc = "idle"
    /\ CanAnswer(reply)
    /\ LET side_up == IF side = "SHORT" THEN "SELL" ELSE IF side = "LONG" THEN "BUY"
                      ELSE side
           entry_price == IF side_up = "BUY" THEN Tick.ask ELSE Tick.bid
           st == calc_sl_tp_from_pips(side_up, entry_price, sl_pips, tp_pips)
           req == [symbol |-> "EURUSD", side |-> side_up, volume |-> volume,
                   price |-> entry_price,
                   sl_pips |-> IF sl_pips = None THEN 0 ELSE sl_pips[1],
                   tp_pips |-> IF tp_pips = None THEN 0 ELSE tp_pips[1],
                   sl |-> st[1], tp |-> st[2], tick_ok |-> tick_ok]
           cls == IF reply.kind # "reply" THEN "no_response"
                  ELSE IF reply.retcode = TRADE_RETCODE_DONE THEN "done" ELSE "failed"
           quiet == UNCHANGED <<olog, last_result, pos, heard>>
       IN  /\ oreq' = req
           /\ IF side \notin {"BUY", "SELL", "LONG", "SHORT"}
              THEN Return([NoResult EXCEPT !.status = "error", !.error = "invalid_side"])
                   /\ quiet
              ELSE IF ~oenv.has_info
              THEN Return([NoResult EXCEPT !.status = "error",
                                           !.error = "symbol_not_found"]) /\ quiet
              ELSE IF ~tick_ok
              THEN Return([NoResult EXCEPT !.status = "error", !.error = "no_tick"])
                   /\ quiet
              ELSE /\ olog' = <<SentOf(req, "market", 0, cls)>>
                   /\ hears(reply)
                   /\ IF reply.kind = "raise"
                      THEN Return([NoResult EXCEPT !.status = "exception"])
                           /\ UNCHANGED <<last_result, pos>>
                      ELSE IF reply.kind = "none"
                      THEN Return([NoResult EXCEPT !.status = "error",
                                                   !.error = "order_send_none"])
                           /\ UNCHANGED <<last_result, pos>>
                      ELSE /\ last_result' = reply
                           /\ pos' = IF cls = "done" THEN Fill(side_up, entry_price, st[1])
                                     ELSE pos
                           /\ IF cls # "done" /\ (st[1] # 0 \/ st[2] # 0)
                              THEN opc' = "widen" /\ oattempt' = 1 /\ UNCHANGED oresult
                              ELSE Return(exec_report(reply))
    /\ UNCHANGED <<oenv, order_ticket>>
    /\ UNCHANGED <<nowMin, trailVars, guardVars, sizeVars, auxVars>>

\* the stop and target of one widened modify request (lines 176-197)
widened_stops(side, current_price, entry_price, sl_price, tp_price) ==
    <<IF sl_price = 0 THEN 0
      ELSE IF side = "BUY"
      THEN current_price - Abs(entry_price - sl_price) * oenv.widen_mult
      ELSE current_price + Abs(entry_price - sl_price) * oenv.widen_mult,
      IF tp_price = 0 THEN 0
      ELSE IF side = "BUY"
      THEN current_price + Abs(tp_price - entry_price) * oenv.widen_mult
      ELSE current_price - Abs(tp_price - entry_price) * oenv.widen_mult>>

\* one pass of the widen loop of execute_market_order (lines 163-217)
ExecWiden(tick_ok, current_price, mres) ==
    /\ opc = "widen"
    /\ mres.kind = "reply" => mres.order = 0
    /\ LET pos_list == TicketSeq(oreq.symbol, 1)
           w == widened_stops(oreq.side, current_price, oreq.price, oreq.sl, oreq.tp)
           modify == [kind |-> "modify", volume |-> 0, price |-> current_price,
                      sl |-> w[1], tp |-> w[2], position |-> pos_list[1],
                      reply |-> IF mres.kind = "reply"
                                   /\ mres.retcode = TRADE_RETCODE_DONE
                                THEN "done" ELSE "failed"]
       IN  IF pos_list = <<>> \/ ~tick_ok
           THEN Return(exec_attach_failed(last_result)) /\ UNCHANGED <<olog, pos, heard>>
           ELSE /\ olog' = Append(olog, modify)
                /\ hears(mres)
                /\ IF mres.kind = "raise"
                   THEN Return([NoResult EXCEPT !.status = "exception"]) /\ UNCHANGED pos
                   ELSE IF mres.kind = "reply" /\ mres.retcode = TRADE_RETCODE_DONE
                   THEN /\ Return(exec_report(last_result))
                        /\ pos' = [pos EXCEPT ![pos_list[1]].sl = w[1]]
                   ELSE IF more_attempts(oattempt)
                   THEN oattempt' = oattempt + 1 /\ UNCHANGED <<opc, oresult, pos>>
                   ELSE Return(exec_attach_failed(last_result)) /\ UNCHANGED pos
    /\ UNCHANGED <<oenv, oreq, last_result, order_ticket>>
    /\ UNCHANGED <<nowMin, trailVars, guardVars, sizeVars, auxVars>>

\* main.py orders_market: the lot it resolves, then execute_market_order
orders_market_lot(explicit, sl_pips) ==
    LET lot == IF explicit # None THEN explicit[1]
               ELSE IF senv.mode = "risk" /\ sl_pips \notin {None, Some(0)}
               THEN compute_lot(sl_pips, "risk", None)
               ELSE lots_override_for(senv.default_lots)
    IN  Max(senv.min_lot, Min(senv.max_lot, lot))

orders_market(side_in, explicit, sl_pips, tp_pips, tick_ok, reply) ==
    LET side == IF side_in = "LONG" THEN "BUY" ELSE IF side_in = "SHORT" THEN "SELL"
                ELSE side_in
    IN  execute_market_order(side, orders_market_lot(explicit, sl_pips), sl_pips,
                             tp_pips, tick_ok, reply)

\* ---- environment of the order calls
MaxRetries == 2

OrderEnvs ==
    {e \in [retries : 1..MaxRetries, widen_mult : {1, 2}, stops_level : {0, 50},
            has_info : BOOLEAN, mode : {"live", "dry_run", "test"}] :
        (e.mode # "live" \/ ~e.has_info) =>
            /\ e.retries = 1 /\ e.widen_mult = 2 /\ e.stops_level = 0
            /\ e.mode = "live" \/ e.has_info}

OrderSizeEnvs ==
    {e \in SizeEnvs :
        /\ e.account_ok /\ e.info /\ e.tick_value = 1
        /\ e.equity = 10000 /\ e.balance = 10000
        /\ e.risk_pct = 1 /\ e.risk_dollars = 0
        /\ e.env_lots \in {None, Some(500)}
        /\ e.mode = "risk" => e.env_lots = None}

OrderInit ==
    /\ \E held \in BOOLEAN :
          pos = [t \in Tickets |-> Position("EURUSD", "BUY", 990, 0, held /\ t = 1)]
    /\ nowMin = 1
    /\ trailEnv = NoConfig
    /\ TrailIdle
    /\ GuardIdle
    /\ senv \in OrderSizeEnvs
    /\ sized = NoSizing
    /\ oenv \in OrderEnvs
    /\ opc = "idle"
    /\ oreq = NoRequest
    /\ oattempt = 0
    /\ olog = <<>>
    /\ last_result = [kind |-> "none"]
    /\ order_ticket = 0
    /\ oresult = NoResult
    /\ heard = NoReply
    /\ ThreadsIdle
    /\ RunnerIdle
    /\ StopsIdle

\* one broker round trip of the running call
OrderStep ==
    \/ \E reply \in BrokerReplies : ProtectedAttempt(reply)
    \/ \E reply \in BrokerReplies : NakedAttempt(reply)
    \/ \E reply \in BrokerReplies : AttachAttempt(reply)
    \/ \E tick_ok \in BOOLEAN, current_price \in {Tick.bid, 1010},
          mres \in BrokerReplies : ExecWiden(tick_ok, current_price, mres)

OrderNext ==
    \/ \E symbol \in {"EURUSD", ""}, side_in \in {"LONG", "SHORT"}, tick_ok \in BOOLEAN :
          place_order(symbol, side_in, 100, 200, tick_ok)
    \/ \E side_in \in {"LONG", "SELL"}, explicit \in {None, Some(15), Some(500)},
          stops \in {<<None, None>>, <<Some(10), Some(20)>>},
          tick_ok \in BOOLEAN, reply \in BrokerReplies :
          orders_market(side_in, explicit, stops[1], stops[2], tick_ok, reply)
    \/ OrderStep

OrderSpec == OrderInit /\ [][OrderNext]_vars

\* the running call is never starved of its next broker round trip
OrderLiveSpec == OrderSpec /\ WF_vars(OrderStep)

\* ---- what the log of a call shows
Count(kind) == Cardinality({i \in 1..Len(olog) : olog[i].kind = kind})
ProtectedExhausted ==
    /\ Count("protected") = oenv.retries
    /\ \A i \in 1..Len(olog) : olog[i].kind = "protected" => olog[i].reply # "done"
NakedFilled == \E i \in 1..Len(olog) : olog[i].kind = "naked" /\ olog[i].reply = "done"
AttachSucceeded ==
    \E i \in 1..Len(olog) : olog[i].kind = "attach" /\ olog[i].reply = "done"
AttachFailed == Count("attach") > 0 /\ ~AttachSucceeded
FullSuccess == oresult.ok /\ oresult.ticket # 0 /\ oresult.warning = ""
FilledWithoutProtection ==
    oresult.ok /\ oresult.ticket # 0 /\ oresult.warning = "sltp_attach_failed"
StopDistance(e) == Abs(e.price - e.sl)
TargetDistance(e) == Abs(e.tp - e.price)

\* C3: once place_order has returned after the stop-protected loop ran out
\* and the naked order filled, it reports full success with the ticket exactly
\* when the stop attach succeeded, and a failed or exhausted attach is reported
\* as filled without protection: ok, ticket, warning.
C3_AttachOutcome ==
    (opc = "done" /\ ProtectedExhausted /\ NakedFilled) =>
        /\ FullSuccess <=> AttachSucceeded
        /\ AttachFailed => FilledWithoutProtection

\* C3 witness: protected loop exhausted, naked fill, every attach attempt
\* failed, reported with ticket and warning
C3_Witness ==
    /\ opc = "done" /\ ProtectedExhausted /\ NakedFilled
    /\ Count("attach") = oenv.retries /\ AttachFailed
    /\ FilledWithoutProtection /\ oresult.ticket = order_ticket

\* C4: every order call returns, and no retry loop sends more than `retries`
\* requests: stop-protected, naked, attach, and the executor's widened modifies.
C4_BoundedAndTerminates ==
    /\ [](/\ Count("protected") <= oenv.retries
          /\ Count("naked") <= oenv.retries
          /\ Count("attach") <= oenv.retries
          /\ Count("modify") <= oenv.retries)
    /\ (opc # "idle" ~> opc = "done")

\* C4 witness: a returned call that used the whole budget of the protected
\* loop and of the attach loop
C4_Witness ==
    /\ opc = "done" /\ oenv.retries = MaxRetries
    /\ Count("protected") = oenv.retries
    /\ Count("naked") >= 1
    /\ Count("attach") = oenv.retries

\* C5: after every widen step the next request carries a stop distance and a
\* target distance strictly greater than the request before it.
C5_WidenIncreases ==
    \A i \in 1..(Len(olog) - 1) :
        (\/ /\ olog[i].kind = "protected" /\ olog[i].reply = "invalid_stops"
            /\ olog[i + 1].kind = "protected"
         \/ olog[i].kind = "modify" /\ olog[i + 1].kind = "modify") =>
            /\ StopDistance(olog[i + 1]) > StopDistance(olog[i])
            /\ TargetDistance(olog[i + 1]) > TargetDistance(olog[i])

\* C6: first stop-protected submission answered invalid stops, second answered
\* success: place_order has returned success after exactly one retry and the
\* second submission's stop is strictly farther from the entry than the first's.
C6_ScenarioB ==
    (/\ Len(olog) >= 2
     /\ olog[1].kind = "protected" /\ olog[1].reply = "invalid_stops"
     /\ olog[2].kind = "protected" /\ olog[2].reply = "done") =>
        /\ opc = "done" /\ oresult.ok /\ Len(olog) = 2
        /\ StopDistance(olog[2]) > StopDistance(olog[1])

\* C9: every market order sent carries a volume inside the instrument's
\* [volume_min, volume_max] that is a whole multiple of its volume_step.
C9_VolumeOnGrid ==
    \A i \in 1..Len(olog) :
        olog[i].kind \in {"protected", "naked", "market"} =>
            /\ Instrument.volume_min <= olog[i].volume
            /\ olog[i].volume <= Instrument.volume_max
            /\ olog[i].volume % Instrument.volume_step = 0

\* place_order has returned after both of its submission loops ran out
BothLoopsFailed ==
    /\ opc = "done" /\ ProtectedExhausted
    /\ Count("naked") = oenv.retries /\ ~NakedFilled

\* C17: when the stop-protected and the naked submission have both failed
\* over their budgets, place_order reports a rejected outcome whose payload is
\* the last response the broker gave during the call, whichever loop received
\* it and whatever its retcode, and never a placeholder when the broker did
\* respond.
C17_LastResponseReported ==
    BothLoopsFailed =>
        /\ ~oresult.ok
        /\ heard.kind = "reply" => oresult.result = heard

\* C18: a permanent rejection of a submission is surfaced at once: the request
\* it answers is the last one the call sends, and the call has returned a
\* failure.
C18_PermanentRejectionFinal ==
    \A i \in 1..Len(olog) :
        olog[i].reply = "other" => (i = Len(olog) /\ opc = "done" /\ ~oresult.ok)

\* the attach requests among the first i requests of the log
AttachesUpTo(i) == Cardinality({j \in 1..i : olog[j].kind = "attach"})

\* C19: the attach loop treats an invalid-stops answer as the submission loop
\* does: while its budget lasts, the answer is followed by another attach
\* request with wider stops.
C19_AttachWidens ==
    opc = "done" =>
        \A i \in 1..Len(olog) :
            (/\ olog[i].kind = "attach" /\ olog[i].reply = "invalid_stops"
             /\ AttachesUpTo(i) < oenv.retries)
            => \E j \in (i + 1)..Len(olog) :
                  /\ olog[j].kind = "attach"
                  /\ StopDistance(olog[j]) > StopDistance(olog[i])

\* C25: place_order returns a failure only if no market order was filled
\* during the call: when a stop-protected or a naked submission of the call
\* was answered with success, whatever order id the answer carries, the
\* returned result reports the fill (ok).
C25_FailureMeansNoFill ==
    (opc = "done" /\ \E i \in 1..Len(olog) :
        olog[i].kind \in {"protected", "naked"} /\ olog[i].reply = "done")
    => oresult.ok

\* C26: execute_market_order changes stops only on the position its own order
\* opened: a call whose market order the broker rejected sends no stop-modify
\* request for a position of the instrument, and does not return a status
\* other than an error.
C26_RejectedLeavesOthers ==
    (olog # <<>> /\ olog[1].kind = "market" /\ olog[1].reply = "failed") =>
        /\ \A i \in 1..Len(olog) : olog[i].kind # "modify"
        /\ opc = "done" => oresult.status \notin {"ok", "partial"}

\* C20: a live order call that finds no tick sends nothing to the broker and
\* returns a result that is not a success.
C20_NoTickNoOrder ==
    (oreq.symbol # "" /\ ~oreq.tick_ok /\ oenv.mode = "live" /\ oenv.has_info) =>
        /\ olog = <<>>
        /\ opc = "done" => ~oresult.ok

\* ------------------------------------------------------------------------
\* Request handlers side by side.  The endpoints of app/main.py are plain
\* (non-async) functions, so the server runs each request on a worker thread of
\* its pool; a handler's calls to mt5.order_send are the steps SendBegin and
\* SendEnd of its thread.
\* ------------------------------------------------------------------------
\* how many order_send calls one request can make: execute_market_order sends
\* the market order and then up to MT5_ATTACH_RETRIES widened modifies;
\* trail_positions modifies each open position once
send_budget(h) ==
    IF h = "monitor_trail" THEN Cardinality(positions("ALL")) ELSE 1 + MaxRetries

\* agents_decide calls risk_guard(symbol, side, sl_pips): the drop-in guard
\* takes the three arguments, check_pretrade_guards takes two and the call raises
reaches_broker(h) == h = "agents_decide" => genv.module = "drop"

\* a request arrives and a worker thread starts its handler
HandlerStart(h) ==
    /\ threads[h].pc = "idle"
    /\ threads' = [threads EXCEPT ![h] = [pc |-> "running", sends |-> 0]]
    /\ UNCHANGED <<pos, nowMin, trailVars, guardVars, sizeVars, orderVars, runner, sltp>>

\* the handler enters mt5.order_send
SendBegin(h) ==
    /\ threads[h].pc = "running"
    /\ reaches_broker(h)
    /\ threads[h].sends < send_budget(h)
    /\ threads' = [threads EXCEPT ![h] = [pc |-> "order_send", sends |-> @.sends + 1]]
    /\ UNCHANGED <<pos, nowMin, trailVars, guardVars, sizeVars, orderVars, runner, sltp>>

\* mt5.order_send returns to the handler
SendEnd(h) ==
    /\ threads[h].pc = "order_send"
    /\ threads' = [threads EXCEPT ![h].pc = "running"]
    /\ UNCHANGED <<pos, nowMin, trailVars, guardVars, sizeVars, orderVars, runner, sltp>>

\* the handler returns its response (or its exception reaches the server)
HandlerReturn(h) ==
    /\ threads[h].pc = "running"
    /\ threads' = [threads EXCEPT ![h] = [pc |-> "idle", sends |-> 0]]
    /\ UNCHANGED <<pos, nowMin, trailVars, guardVars, sizeVars, orderVars, runner, sltp>>

ConcInit ==
    /\ pos \in Books
    /\ nowMin = 1
    /\ trailEnv = NoConfig
    /\ TrailIdle
    /\ account \in {a \in Accounts : a.ok /\ a.equity = 120}
    /\ genv \in {[NeutralEnv EXCEPT !.module = m] : m \in {"pretrade", "drop"}}
    /\ LAST_REJECT_MIN = [s \in Symbols |-> 0]
    /\ last_trade_at = [s \in Symbols |-> 0]
    /\ guard = NoDecision
    /\ SizeIdle
    /\ OrderIdle
    /\ ThreadsIdle
    /\ RunnerIdle
    /\ StopsIdle

ConcNext ==
    \E h \in Handlers : HandlerStart(h) \/ SendBegin(h) \/ SendEnd(h) \/ HandlerReturn(h)

ConcSpec == ConcInit /\ [][ConcNext]_vars

\* the handlers that are inside mt5.order_send
InFlight == {h \in Handlers : threads[h].pc = "order_send"}

\* C11: at most one broker-mutating call is in flight at any time, under
\* every interleaving of the execution path and the trailing controller.
C11_OneBrokerCall == Cardinality(InFlight) <= 1

\* ------------------------------------------------------------------------
\* The trade loops: run_auto_guarded.py (main) and auto_runner.py (loop)
\* ------------------------------------------------------------------------
\* cycles a loop of the model runs
MaxCycles == 3

\* AGENT_SYMBOLS
SYMBOLS == <<"EURUSD", "US30">>

\* the lowest closed ticket of the symbol, 0 when the book of the model is full
free_ticket(symbol) ==
    LET free == {t \in Tickets : pos[t].symbol = symbol /\ ~pos[t].open}
    IN  IF free = {} THEN 0 ELSE CHOOSE t \in free : \A u \in free : t <= u

\* the broker's book after a fill
filled(symbol, side) ==
    [pos EXCEPT ![free_ticket(symbol)] =
        [@ EXCEPT !.open = TRUE, !.side = IF side = "LONG" THEN "BUY" ELSE "SELL",
                  !.time = nowMin]]

\* the outcomes of the order function called by a loop: a fill (only while
\* the book of the model has room), a rejected request, an exception, and
\* "unsent", a return before order_send (executor.py lines 116-133: invalid
\* side, symbol not found, no tick)
OrderOutcomes(symbol) ==
    IF free_ticket(symbol) = 0 THEN {"error", "raise", "unsent"}
    ELSE {"ok", "error", "raise", "unsent"}

Event(symbol, outcome, raised, admitted, wrote) ==
    [symbol |-> symbol, outcome |-> outcome, raised |-> raised, admitted |-> admitted,
     at |-> nowMin, prev_fill |-> runner.filled_at[symbol], wrote |-> wrote]

\* the loop goes on with the next instrument
loop_continue(ev) ==
    runner' = [runner EXCEPT !.i = @ + 1, !.last = ev]

\* the loop goes on after a successful submission
loop_placed(ev, mark) ==
    runner' = [runner EXCEPT !.i = @ + 1, !.last = ev,
                             !.filled_at[ev.symbol] = nowMin,
                             !.last_trade_ts[ev.symbol] = IF mark THEN nowMin ELSE @]

\* an exception leaves the function: the process ends
loop_crash(ev) == runner' = [runner EXCEPT !.pc = "stopped", !.last = ev]

\* run_auto_guarded.py main: the top of the while loop (lines 43-53)
\* auto_runner.py loop: the top of the while loop (lines 88-98)
LoopCycle(in_window) ==
    /\ runner.pc = "cycle"
    /\ runner.cycle < MaxCycles
    /\ IF runner.script = "auto_runner"
          /\ (~in_window \/ Cardinality(positions("ALL")) >= runner.max_open)
       THEN \* sleeps for the period and starts over
            /\ runner' = [runner EXCEPT !.cycle = @ + 1]
            /\ nowMin' = nowMin + 1
       ELSE /\ runner' = [runner EXCEPT !.cycle = @ + 1, !.pc = "symbol", !.i = 1]
            /\ UNCHANGED nowMin
    /\ UNCHANGED <<pos, trailVars, guardVars, sizeVars, orderVars, threads, sltp>>

\* a gate that lets every decision through
guard_blocks_never(v) == FALSE

\* the callers' test of the guard decision: run_auto_guarded.py lines 85-87,
\* app/main.py lines 195-197
guard_blocks(v) == v[1] # "ok"

\* run_auto_guarded.py main: one instrument (lines 55-94)
GuardedSymbol(market, sig, order) ==
    /\ runner.script = "run_auto_guarded"
    /\ runner.pc = "symbol"
    /\ runner.i <= Len(SYMBOLS)
    /\ LET sym == SYMBOLS[runner.i]
           caught == market = "raise"
           v == drop_verdict(sym, sig, "open", TRUE, TRUE)
       IN  IF sig = "raise"
           THEN /\ loop_continue(Event(sym, "signal_error", TRUE, FALSE, FALSE))
                /\ UNCHANGED <<pos, LAST_REJECT_MIN>>
           ELSE IF sig = ""
           THEN /\ loop_continue(Event(sym, "no_signal", caught, FALSE, FALSE))
                /\ UNCHANGED <<pos, LAST_REJECT_MIN>>
           ELSE IF genv.module = "pretrade"
           THEN \* check_pretrade_guards takes two arguments and is given three
                /\ loop_crash(Event(sym, "guard_error", TRUE, FALSE, FALSE))
                /\ UNCHANGED <<pos, LAST_REJECT_MIN>>
           ELSE IF guard_blocks(v)
           THEN /\ loop_continue(Event(sym, "blocked", caught, FALSE, v[2]))
                /\ reject_written(sym, v)
                /\ UNCHANGED pos
           ELSE /\ order \in OrderOutcomes(sym)
                /\ UNCHANGED LAST_REJECT_MIN
                /\ IF order = "raise"
                   THEN /\ loop_crash(Event(sym, "order_error", TRUE, v[1] = "ok", FALSE))
                        /\ UNCHANGED pos
                   ELSE IF order = "ok"
                   THEN /\ loop_placed(Event(sym, "placed", caught, v[1] = "ok", FALSE), FALSE)
                        /\ pos' = filled(sym, sig)
                   ELSE /\ loop_continue(Event(sym, IF order = "unsent" THEN "not_sent"
                                                         ELSE "place_error",
                                               caught, v[1] = "ok", FALSE))
                        /\ UNCHANGED pos
    /\ UNCHANGED <<nowMin, trailVars, account, genv, last_trade_at, guard,
                   sizeVars, orderVars, threads, sltp>>

\* auto_runner.py cooldown_ok
cooldown_ok(symbol) ==
    LET lt == runner.last_trade_ts[symbol]
    IN  lt = 0 \/ nowMin - lt >= runner.cooldown_min

\* auto_runner.py has_same_side_position
has_same_side_position(symbol, side) ==
    \E t \in positions(symbol) : same_side(pos[t].side) = side

\* auto_runner.py loop: one instrument (lines 100-157), with the two
\* /agents/decide requests it makes answered by agents_decide of app/main.py
RunnerSymbol(http, sig1, sig2, order) ==
    /\ runner.script = "auto_runner"
    /\ runner.pc = "symbol"
    /\ runner.i <= Len(SYMBOLS)
    /\ LET sym == SYMBOLS[runner.i]
           v == drop_verdict(sym, sig2, "open", TRUE, TRUE)
           quiet(outcome, raised) ==
               /\ loop_continue(Event(sym, outcome, raised, FALSE, FALSE))
               /\ UNCHANGED <<pos, LAST_REJECT_MIN>>
       IN  IF Cardinality(positions(sym)) >= runner.max_per_symbol
           THEN quiet("per_symbol", FALSE)
           ELSE IF ~cooldown_ok(sym) THEN quiet("cooldown", FALSE)
           ELSE IF http = "preview_raise" THEN quiet("error", TRUE)
           ELSE IF sig1 \notin {"LONG", "SHORT"} THEN quiet("no_signal", FALSE)
           ELSE IF runner.block_same /\ has_same_side_position(sym, sig1)
           THEN quiet("same_side", FALSE)
           ELSE IF http = "execute_raise" THEN quiet("error", TRUE)
           ELSE IF sig2 \notin {"LONG", "SHORT"} THEN quiet("not_accepted", FALSE)
           ELSE IF genv.module = "pretrade"
           THEN \* the handler ends in a server error and the reply is no JSON
                quiet("error", TRUE)
           ELSE IF guard_blocks(v)
           THEN /\ loop_continue(Event(sym, "blocked", FALSE, FALSE, v[2]))
                /\ reject_written(sym, v)
                /\ UNCHANGED pos
           ELSE /\ order \in OrderOutcomes(sym)
                /\ UNCHANGED LAST_REJECT_MIN
                /\ IF order = "ok"
                   THEN /\ loop_placed(Event(sym, "placed", FALSE, v[1] = "ok", TRUE), TRUE)
                        /\ pos' = filled(sym, sig2)
                   ELSE /\ loop_continue(Event(sym, IF order = "unsent" THEN "not_sent"
                                                         ELSE "place_error",
                                               order = "raise", v[1] = "ok", FALSE))
                        /\ UNCHANGED pos
    /\ UNCHANGED <<nowMin, trailVars, account, genv, last_trade_at, guard,
                   sizeVars, orderVars, threads, sltp>>

\* the end of the for loop: run_auto_guarded.py sleeps for the period (line
\* 96); auto_runner.py has slept two seconds per instrument (line 157)
LoopCycleEnd(minutes) ==
    /\ runner.pc = "symbol"
    /\ runner.i > Len(SYMBOLS)
    /\ runner.script = "run_auto_guarded" => minutes = 1
    /\ runner' = [runner EXCEPT !.pc = "cycle", !.i = 0]
    /\ nowMin' = nowMin + minutes
    /\ UNCHANGED <<pos, trailVars, guardVars, sizeVars, orderVars, threads, sltp>>

LoopScripts == {"run_auto_guarded", "auto_runner"}

LoopInit ==
    /\ pos \in {b \in Books : \A t \in Tickets : ~b[t].open}
    \* the clock is past the first cooldown window, as the minutes since the
    \* epoch are
    /\ nowMin = 2
    /\ trailEnv = NoConfig
    /\ TrailIdle
    /\ account \in {a \in Accounts : a.ok /\ a.equity = 120}
    /\ genv \in {[NeutralEnv EXCEPT !.module = m, !.cooldown_min = 2, !.block_same = b] :
                    m \in {"pretrade", "drop"}, b \in BOOLEAN}
    /\ LAST_REJECT_MIN = [s \in Symbols |-> 0]
    /\ last_trade_at = [s \in Symbols |-> 0]
    /\ guard = NoDecision
    /\ SizeIdle
    /\ OrderIdle
    /\ ThreadsIdle
    /\ StopsIdle
    /\ \E script \in LoopScripts :
          runner = [script |-> script, pc |-> "cycle", cycle |-> 0, i |-> 0,
                    cooldown_min |-> 2, max_open |-> 3, max_per_symbol |-> 2,
                    block_same |-> TRUE,
                    last_trade_ts |-> [s \in Symbols |-> 0],
                    filled_at |-> [s \in Symbols |-> 0], last |-> NoEvent]

LoopSignals == {"LONG", "SHORT", "", "raise"}

LoopNext ==
    \/ \E in_window \in BOOLEAN : LoopCycle(in_window)
    \/ \E market \in {"ok", "raise"}, sig \in LoopSignals, order \in {"ok", "error", "raise", "unsent"} :
          GuardedSymbol(market, sig, order)
    \/ \E http \in {"ok", "preview_raise", "execute_raise"}, sig1 \in LoopSignals,
          sig2 \in LoopSignals, order \in {"ok", "error", "raise", "unsent"} :
          RunnerSymbol(http, sig1, sig2, order)
    \/ \E minutes \in {0, 1} : LoopCycleEnd(minutes)

LoopSpec == LoopInit /\ [][LoopNext]_vars

\* C13: an exception raised while one instrument is processed (market check,
\* signal, guard evaluation, order placement) is caught and logged and the
\* loop goes on: it never stops.
C13_LoopSurvives == runner.last.raised => runner.pc # "stopped"

\* the instrument of the event was given a side by the signal the loop read,
\* and its order function sent a market order (an exception of the order
\* function counts as sent)
Processed(e) == e.outcome \notin {"none", "per_symbol", "cooldown"}
CarriesSide(e) == e.outcome \notin {"none", "per_symbol", "cooldown", "signal_error",
                                     "no_signal", "not_accepted", "error"}
Submitted(e) == e.outcome \in {"placed", "place_error", "order_error"}

loop_window == IF runner.script = "auto_runner" THEN runner.cooldown_min ELSE genv.cooldown_min
loop_cooldown(symbol) ==
    IF runner.script = "auto_runner" THEN runner.last_trade_ts[symbol]
    ELSE cooldown_store[symbol]

\* C16: a successful submission of an accepted signal records the
\* instrument's cooldown timestamp, no signal on the instrument is admitted
\* before the window has elapsed since that submission, and an accepted
\* signal whose order failed records no cooldown.
C16_CooldownAfterTrade ==
    LET e == runner.last
    IN  /\ e.outcome = "placed" => loop_cooldown(e.symbol) = e.at
        /\ (e.admitted /\ e.prev_fill # 0) => e.at - e.prev_fill >= loop_window
        /\ e.outcome = "place_error" => ~e.wrote

\* ------------------------------------------------------------------------
\* SL/TP prices: app/exec/executor_mt5.py compute_sl_tp_prices and the
\* computation of app/brokers/mt5_client.py place_order (lines 233-238).
\* Prices are points; the broker's stops level is oenv.stops_level.
\* ------------------------------------------------------------------------
\* executor_mt5.py _pip_size of a 5-digit symbol that is not gold, in points
mt5x_pip_size == IF Instrument.digits >= 5 THEN 10 ELSE Instrument.point * 10

\* executor_mt5.py _price_from_pips
price_from_pips(entry, pips, side, is_sl) ==
    LET delta == mt5x_pip_size * pips
    IN  IF side = "LONG" THEN (IF is_sl THEN entry - delta ELSE entry + delta)
        ELSE (IF is_sl THEN entry + delta ELSE entry - delta)

\* executor_mt5.py _round_to_tick
round_to_tick(price) ==
    IF sltp.tick_size <= 0 THEN price
    ELSE RoundHalfEven(price, sltp.tick_size) * sltp.tick_size

\* executor_mt5.py _ensure_min_stop_distance
ensure_min_stop_distance(side, entry, sl, tp) ==
    LET min_dist_price == oenv.stops_level * Instrument.point
        pushed == IF side = "LONG"
                  THEN <<IF entry - sl < min_dist_price THEN entry - min_dist_price ELSE sl,
                         IF tp - entry < min_dist_price THEN entry + min_dist_price ELSE tp>>
                  ELSE <<IF sl - entry < min_dist_price THEN entry + min_dist_price ELSE sl,
                         IF entry - tp < min_dist_price THEN entry - min_dist_price ELSE tp>>
    IN  IF oenv.stops_level <= 0 THEN <<sl, tp>>
        ELSE <<round_to_tick(pushed[1]), round_to_tick(pushed[2])>>

\* executor_mt5.py compute_sl_tp_prices
compute_sl_tp_prices(side, entry, sl_pips, tp_pips) ==
    LET sl == round_to_tick(price_from_pips(entry, sl_pips, side, TRUE))
        tp == round_to_tick(price_from_pips(entry, tp_pips, side, FALSE))
    IN  ensure_min_stop_distance(side, entry, sl, tp)

StopsDone(fn, long, entry, st) ==
    /\ sltp' = [fn |-> fn, tick_size |-> sltp.tick_size, long |-> long,
                entry |-> entry, sl |-> st[1], tp |-> st[2]]
    /\ UNCHANGED <<pos, nowMin, trailVars, guardVars, sizeVars, orderVars, threads, runner>>

ComputeSlTpPrices(side, entry, sl_pips, tp_pips) ==
    StopsDone("compute_sl_tp_prices", side = "LONG", entry,
              compute_sl_tp_prices(side, entry, sl_pips, tp_pips))

\* place_order lines 233-238: the market price, then _compute_sl_tp and
\* _ensure_min_stops
PlaceOrderStops(side, price, sl_pips, tp_pips) ==
    StopsDone("place_order", side = "BUY", price, stops_for(side, price, sl_pips, tp_pips))

\* the quotes, all on the tick grid of every modelled tick size
StopEntries == {1000, 1005, 1010}
StopPips == {0, 1, 3, 40}

StopsInit ==
    /\ pos = [t \in Tickets |-> Position("EURUSD", "BUY", 990, 0, FALSE)]
    /\ nowMin = 1
    /\ trailEnv = NoConfig
    /\ TrailIdle
    /\ GuardIdle
    /\ SizeIdle
    /\ oenv \in {[retries |-> 1, widen_mult |-> 2, stops_level |-> l, has_info |-> TRUE,
                  mode |-> "live"] : l \in {0, 12, 50}}
    /\ opc = "idle"
    /\ oreq = NoRequest
    /\ oattempt = 0
    /\ olog = <<>>
    /\ last_result = NoReply
    /\ order_ticket = 0
    /\ oresult = NoResult
    /\ heard = NoReply
    /\ ThreadsIdle
    /\ RunnerIdle
    /\ sltp \in {[NoStops EXCEPT !.tick_size = ts] : ts \in {1, 5}}

StopsNext ==
    \/ \E side \in {"LONG", "SHORT"}, entry \in StopEntries, sl_pips \in StopPips,
          tp_pips \in StopPips : ComputeSlTpPrices(side, entry, sl_pips, tp_pips)
    \/ \E side \in {"BUY", "SELL"}, price \in StopEntries, sl_pips \in StopPips,
          tp_pips \in StopPips : PlaceOrderStops(side, price, 10 * sl_pips, 10 * tp_pips)

StopsSpec == StopsInit /\ [][StopsNext]_vars

OnTickGrid(price) == price % sltp.tick_size = 0

\* C21: the stop-loss and take-profit prices of every SL/TP computation lie on
\* the instrument's tick grid and are no closer to the reference price than
\* the broker's minimum stop distance, the stop on the loss side and the
\* target on the profit side.
C21_StopsOnGridAndFar ==
    sltp.fn # "none" =>
        LET min_dist == oenv.stops_level * Instrument.point
        IN  /\ OnTickGrid(sltp.sl) /\ OnTickGrid(sltp.tp)
            /\ IF sltp.long
               THEN sltp.entry - sltp.sl >= min_dist /\ sltp.tp - sltp.entry >= min_dist
               ELSE sltp.sl - sltp.entry >= min_dist /\ sltp.entry - sltp.tp >= min_dist

====
